---------------------------- MODULE Spec2Model ----------------------------
(***************************************************************************)
(* BlockMarket world controller: the command executor and its policy, the  *)
(* trading floor builder, the WebSocket listener (WebSocketServer) and the *)
(* WebSocket connector (WebSocketManager), with the host's single update   *)
(* thread modelled as a task queue.                                        *)
(*                                                                         *)
(* A Java String is a sequence of one-character strings, so that trim,     *)
(* startsWith, substring, split and toLowerCase are computed, not assumed. *)
(***************************************************************************)
EXTENDS Integers, Sequences, FiniteSets, TLC

(***************************************************************************)
(* Strings                                                                 *)
(***************************************************************************)
Uppers == <<"A","B","C","D","E","F","G","H","I","J","K","L","M",
            "N","O","P","Q","R","S","T","U","V","W","X","Y","Z">>
Lowers == <<"a","b","c","d","e","f","g","h","i","j","k","l","m",
            "n","o","p","q","r","s","t","u","v","w","x","y","z">>

\* Character.toLowerCase / toUpperCase on the letters A-Z, a-z
ToLowerChar(c) ==
    IF \E i \in 1..Len(Uppers) : Uppers[i] = c
    THEN Lowers[CHOOSE i \in 1..Len(Uppers) : Uppers[i] = c]
    ELSE c

ToUpperChar(c) ==
    IF \E i \in 1..Len(Lowers) : Lowers[i] = c
    THEN Uppers[CHOOSE i \in 1..Len(Lowers) : Lowers[i] = c]
    ELSE c

\* String.toLowerCase
toLowerCase(s) == [i \in 1..Len(s) |-> ToLowerChar(s[i])]

toUpperCase(s) == [i \in 1..Len(s) |-> ToUpperChar(s[i])]

\* String.trim: strips leading and trailing characters <= ' '
RECURSIVE trimLeft(_)
trimLeft(s) == IF s # <<>> /\ Head(s) = " " THEN trimLeft(Tail(s)) ELSE s

RECURSIVE trimRight(_)
trimRight(s) ==
    IF s # <<>> /\ s[Len(s)] = " " THEN trimRight(SubSeq(s, 1, Len(s) - 1)) ELSE s

trim(s) == trimRight(trimLeft(s))

\* String.startsWith for a one-character prefix
startsWith(s, c) == s # <<>> /\ Head(s) = c

\* String.endsWith for a one-character suffix
endsWith(s, c) == s # <<>> /\ s[Len(s)] = c

\* String.split(" ") : the pieces around each space, trailing empty pieces removed
RECURSIVE splitAll(_)
splitAll(s) ==
    IF \E i \in 1..Len(s) : s[i] = " "
    THEN LET i == CHOOSE j \in 1..Len(s) : s[j] = " " /\ \A k \in 1..(j - 1) : s[k] # " "
         IN  <<SubSeq(s, 1, i - 1)>> \o splitAll(SubSeq(s, i + 1, Len(s)))
    ELSE <<s>>

RECURSIVE dropTrailingEmpty(_)
dropTrailingEmpty(parts) ==
    IF parts # <<>> /\ parts[Len(parts)] = <<>>
    THEN dropTrailingEmpty(SubSeq(parts, 1, Len(parts) - 1))
    ELSE parts

split(s) == IF s = <<>> THEN <<s>> ELSE dropTrailingEmpty(splitAll(s))

(***************************************************************************)
(* CommandExecutor                                                         *)
(***************************************************************************)
VARIABLES
    allowedCommands,   \* CommandExecutor.allowedCommands (config allowed-commands)
    blockedCommands,   \* CommandExecutor.blockedCommands (config blocked-commands)
    lastExec           \* the most recent executeCommand call and what it did

policyVars == <<allowedCommands, blockedCommands, lastExec>>

\* the list literal of isDangerousCommand
dangerousCommands == {
    <<"s","t","o","p">>, <<"r","e","s","t","a","r","t">>, <<"r","e","l","o","a","d">>,
    <<"r","e","l","o","a","d","-","a","l","l">>, <<"s","a","v","e","-","a","l","l">>,
    <<"s","a","v","e","-","o","f","f">>, <<"s","a","v","e","-","o","n">>,
    <<"w","h","i","t","e","l","i","s","t">>, <<"b","a","n">>, <<"b","a","n","-","i","p">>,
    <<"p","a","r","d","o","n">>, <<"p","a","r","d","o","n","-","i","p">>, <<"k","i","c","k">>,
    <<"o","p">>, <<"d","e","o","p">>, <<"s","e","t","w","o","r","l","d","s","p","a","w","n">>,
    <<"s","e","t","w","o","r","l","d","s","p","a","w","n">>, <<"w","o","r","l","d">>,
    <<"w","o","r","l","d","s">>, <<"m","u","l","t","i","v","e","r","s","e">>, <<"m","v">>
    }

isDangerousCommand(commandName) == toLowerCase(commandName) \in dangerousCommands

isCommandBlocked(commandName) == toLowerCase(commandName) \in blockedCommands

\* a variant of the allow-list test that admits every name
isCommandAllowedAny(commandName) == TRUE

isCommandAllowed(commandName) == toLowerCase(commandName) \in allowedCommands

NoDispatch == <<>>

\* A variant of executeCommand in which a name on the allow list skips the
\* dangerous-name check.
executeCommandAllowFirst(command, hostOutcome) ==
    IF trim(command) = <<>>
    THEN [ret |-> FALSE, dispatch |-> NoDispatch, thrown |-> FALSE]
    ELSE
      LET cleanCommand == IF startsWith(command, "/") THEN Tail(command) ELSE command
          parts == split(cleanCommand)
      IN
      IF parts = <<>>
      THEN [ret |-> FALSE, dispatch |-> NoDispatch, thrown |-> TRUE]
      ELSE
        LET commandName == toLowerCase(parts[1]) IN
        IF isCommandBlocked(commandName)
        THEN [ret |-> FALSE, dispatch |-> NoDispatch, thrown |-> FALSE]
        ELSE IF allowedCommands # {} /\ ~isCommandAllowed(commandName)
        THEN [ret |-> FALSE, dispatch |-> NoDispatch, thrown |-> FALSE]
        ELSE IF allowedCommands = {} /\ isDangerousCommand(commandName)
        THEN [ret |-> FALSE, dispatch |-> NoDispatch, thrown |-> FALSE]
        ELSE [ret |-> hostOutcome = "true", dispatch |-> <<cleanCommand>>,
              thrown |-> FALSE]

\* The outcome of executeCommand(command) when the host's dispatchCommand would
\* answer hostOutcome ("true", "false" or "throws"):
\*   ret      the boolean returned (FALSE also when parts[0] raises)
\*   dispatch the command lines handed to Bukkit.dispatchCommand
\*   thrown   an exception leaves executeCommand (split produced no part)
executeCommand(command, hostOutcome) ==
    IF trim(command) = <<>>
    THEN [ret |-> FALSE, dispatch |-> NoDispatch, thrown |-> FALSE]
    ELSE
      LET cleanCommand == IF startsWith(command, "/") THEN Tail(command) ELSE command
          parts == split(cleanCommand)
      IN
      IF parts = <<>>
      THEN [ret |-> FALSE, dispatch |-> NoDispatch, thrown |-> TRUE]
      ELSE
        LET commandName == toLowerCase(parts[1]) IN
        IF isCommandBlocked(commandName)
        THEN [ret |-> FALSE, dispatch |-> NoDispatch, thrown |-> FALSE]
        ELSE IF allowedCommands # {} /\ ~isCommandAllowed(commandName)
        THEN [ret |-> FALSE, dispatch |-> NoDispatch, thrown |-> FALSE]
        ELSE IF isDangerousCommand(commandName)
        THEN [ret |-> FALSE, dispatch |-> NoDispatch, thrown |-> FALSE]
        ELSE [ret |-> hostOutcome = "true", dispatch |-> <<cleanCommand>>,
              thrown |-> FALSE]

\* Bukkit.dispatchCommand answers true, answers false (unknown command) or throws
HostOutcomes == {"true", "false", "throws"}

(***************************************************************************)
(* Inputs of the command executor                                          *)
(***************************************************************************)
say == <<"s","a","y">>
give == <<"g","i","v","e">>
stop == <<"s","t","o","p">>
op == <<"o","p">>

capitalize(s) == IF s = <<>> THEN s ELSE <<ToUpperChar(Head(s))>> \o Tail(s)

CommandNames == dangerousCommands \cup {say, give}

CommandPrefixes == {<<>>, <<"/">>, <<"/","/">>}

CommandSuffixes == {<<>>, <<" ","x">>}

CommandInputs ==
    {p \o v \o s : p \in CommandPrefixes, s \in CommandSuffixes,
                   v \in UNION {{n, toUpperCase(n), capitalize(n)} : n \in CommandNames}}
    \cup {<<>>, <<" ">>, <<"/">>, <<"/"," ">>, <<" ">> \o op, op \o <<" ">>, <<" ","/">> \o stop}

\* entries a server owner may write in allowed-commands / blocked-commands
ConfigEntries == {say, stop, op}

NoExec == [called |-> FALSE, command |-> <<>>, ret |-> FALSE,
           dispatch |-> NoDispatch, thrown |-> FALSE]

(***************************************************************************)
(* Host update thread and world                                            *)
(***************************************************************************)
VARIABLES
    mainQueue,     \* tasks handed to Bukkit.getScheduler().runTask, in order
    mutations,     \* which thread executed each kind of host-state mutation
    built          \* the builds whose block writes have been executed

hostVars == <<mainQueue, mutations, built>>

\* Java int division truncates toward zero
JavaDiv(a, b) ==
    IF a >= 0 THEN a \div b ELSE -((-a) \div b)

\* the range of a Java int
MaxInt32 == 2147483647

MinInt32 == -2147483647 - 1

\* a + b in Java int arithmetic: wraps around at the ends of the range
AddInt32(a, b) ==
    IF b >= 0
    THEN IF a > MaxInt32 - b
         THEN MinInt32 + ((b - (MaxInt32 - a)) - 1)
         ELSE a + b
    ELSE IF a < MinInt32 - b
         THEN MaxInt32 - (((MinInt32 - b) - a) - 1)
         ELSE a + b

(***************************************************************************)
(* TradingFloorBuilder                                                     *)
(***************************************************************************)
floorY == 100

ceilingY == 104

\* the BukkitRunnable of buildTradingFloor: its run() makes every setType call
\* of the build (buildFloor, buildWalls, buildGlassCeiling, addLighting)
BuildTask(world, startX, startZ, size) ==
    [kind |-> "build", world |-> world, startX |-> startX, startZ |-> startZ,
     size |-> size]

\* a variant that reports the far corner of the footprint as the centre
TradingFloorResultFarCorner(startX, startZ, size) ==
    [centerX |-> AddInt32(startX, size), centerY |-> floorY + 1,
     centerZ |-> AddInt32(startZ, size), size |-> size]

\* new TradingFloorResult(centerX, floorY + 1, centerZ, size)
TradingFloorResult(startX, startZ, size) ==
    [centerX |-> AddInt32(startX, JavaDiv(size, 2)), centerY |-> floorY + 1,
     centerZ |-> AddInt32(startZ, JavaDiv(size, 2)), size |-> size]

\* buildTradingFloor: schedules the build with runTask and returns the result;
\* the method has no failure path (thrown is always FALSE)
buildTradingFloor(world, startX, startZ, size) ==
    [result |-> TradingFloorResult(startX, startZ, size),
     tasks  |-> <<BuildTask(world, startX, startZ, size)>>,
     thrown |-> FALSE]

\* a variant that derives the corner from (size - 1) / 2
buildTradingFloorCenteredOffByOne(world, centerX, centerZ, size) ==
    buildTradingFloor(world, AddInt32(centerX, -JavaDiv(size - 1, 2)),
                      AddInt32(centerZ, -JavaDiv(size - 1, 2)), size)

buildTradingFloorCentered(world, centerX, centerZ, size) ==
    buildTradingFloor(world, AddInt32(centerX, -JavaDiv(size, 2)),
                      AddInt32(centerZ, -JavaDiv(size, 2)), size)


(***************************************************************************)
(* TradingFloorBuilder: the block writes of one build                      *)
(***************************************************************************)
Max(a, b) == IF a >= b THEN a ELSE b

\* the values of v in "for (int v = from; v < below; v++)", as the interval
\* lo..hi; v++ never passes the largest int, since v < below before it
NoCoords == [lo |-> 1, hi |-> 0]

LoopCoords(from, below) ==
    IF from < below THEN [lo |-> from, hi |-> below - 1] ELSE NoCoords

OneCoord(v) == [lo |-> v, hi |-> v]

\* world.getBlockAt(x, y, z).setType(material) for every x, y, z of the three
\* intervals: the writes of one nest of loops
Fill(xs, ys, zs, material) == [xs |-> xs, ys |-> ys, zs |-> zs, material |-> material]

buildFloor(startX, startZ, size, y) ==
    <<Fill(LoopCoords(startX, AddInt32(startX, size)), OneCoord(y),
           LoopCoords(startZ, AddInt32(startZ, size)), "POLISHED_BLACKSTONE")>>

\* a variant that puts the east wall one block beyond the footprint
buildWallsEastOutside(startX, startZ, size, y0, y1) ==
    LET ys == LoopCoords(y0 + 1, y1)
        xs == LoopCoords(startX, AddInt32(startX, size))
        zs == LoopCoords(startZ, AddInt32(startZ, size))
    IN  <<Fill(xs, ys, OneCoord(startZ), "GLASS"),
          Fill(xs, ys, OneCoord(AddInt32(AddInt32(startZ, size), -1)), "GLASS"),
          Fill(OneCoord(startX), ys, zs, "GLASS"),
          Fill(OneCoord(AddInt32(startX, size)), ys, zs, "GLASS")>>

\* north, south, west and east wall, on every level above y0 and below y1
buildWalls(startX, startZ, size, y0, y1) ==
    LET ys == LoopCoords(y0 + 1, y1)
        xs == LoopCoords(startX, AddInt32(startX, size))
        zs == LoopCoords(startZ, AddInt32(startZ, size))
    IN  <<Fill(xs, ys, OneCoord(startZ), "GLASS"),
          Fill(xs, ys, OneCoord(AddInt32(AddInt32(startZ, size), -1)), "GLASS"),
          Fill(OneCoord(startX), ys, zs, "GLASS"),
          Fill(OneCoord(AddInt32(AddInt32(startX, size), -1)), ys, zs, "GLASS")>>

buildGlassCeiling(startX, startZ, size, y) ==
    <<Fill(LoopCoords(startX, AddInt32(startX, size)), OneCoord(y),
           LoopCoords(startZ, AddInt32(startZ, size)), "GLASS")>>

\* the number of rounds of a lighting loop that are followed; a loop that
\* stays within the range of int has at most 6 rounds for every size
MaxLightSteps == 8

\* the values of v in "for (v = ...; v < below; v += spacing)" from v on, in
\* int arithmetic, for at most `rounds` rounds
RECURSIVE LightLoop(_, _, _, _)
LightLoop(v, below, spacing, rounds) ==
    IF rounds = 0 \/ ~(v < below) THEN {}
    ELSE {v} \cup LightLoop(AddInt32(v, spacing), below, spacing, rounds - 1)

\* whether the loop has ended within `rounds` rounds
RECURSIVE LightLoopEnds(_, _, _, _)
LightLoopEnds(v, below, spacing, rounds) ==
    IF ~(v < below) THEN TRUE
    ELSE IF rounds = 0 THEN FALSE
    ELSE LightLoopEnds(AddInt32(v, spacing), below, spacing, rounds - 1)

\* a variant whose grid starts on the corner of the footprint
addLightingFromCorner(startX, startZ, size, lightY) ==
    LET spacing == Max(4, JavaDiv(size, 6))
        belowX == AddInt32(AddInt32(startX, size), -1)
        belowZ == AddInt32(AddInt32(startZ, size), -1)
    IN  [xs |-> LightLoop(startX, belowX, spacing, MaxLightSteps),
         zs |-> LightLoop(startZ, belowZ, spacing, MaxLightSteps),
         y |-> lightY + 2, material |-> "SEA_LANTERN",
         ended |-> /\ LightLoopEnds(startX, belowX, spacing, MaxLightSteps)
                   /\ LightLoopEnds(startZ, belowZ, spacing, MaxLightSteps)]

\* addLighting: a sea lantern at (x, lightY + 2, z) for every x of the outer
\* and every z of the inner loop. Of a loop that does not end within
\* MaxLightSteps rounds (v += spacing has passed the largest int) only the
\* first MaxLightSteps values are listed, and ended is FALSE.
addLighting(startX, startZ, size, lightY) ==
    LET spacing == Max(4, JavaDiv(size, 6))
        belowX == AddInt32(AddInt32(startX, size), -1)
        belowZ == AddInt32(AddInt32(startZ, size), -1)
        firstX == AddInt32(startX, spacing)
        firstZ == AddInt32(startZ, spacing)
    IN  [xs |-> LightLoop(firstX, belowX, spacing, MaxLightSteps),
         zs |-> LightLoop(firstZ, belowZ, spacing, MaxLightSteps),
         y |-> lightY + 2, material |-> "SEA_LANTERN",
         ended |-> /\ LightLoopEnds(firstX, belowX, spacing, MaxLightSteps)
                   /\ LightLoopEnds(firstZ, belowZ, spacing, MaxLightSteps)]

\* run() of the build task: floor, walls, ceiling, lighting
BuildRun(task) ==
    [fills  |-> buildFloor(task.startX, task.startZ, task.size, floorY)
                  \o buildWalls(task.startX, task.startZ, task.size, floorY, ceilingY)
                  \o buildGlassCeiling(task.startX, task.startZ, task.size, ceilingY),
     lights |-> addLighting(task.startX, task.startZ, task.size, floorY + 1)]
(***************************************************************************)
(* Frames                                                                  *)
(*                                                                         *)
(* The text of a frame is a sequence of lexical tokens <<kind, value>>:    *)
(* "p" punctuation, "s" a quoted string, "n" a number, "w" white space,    *)
(* "t" a bare word of plain text.                                          *)
(***************************************************************************)
LB == <<"p", "{">>
RB == <<"p", "}">>
COLON == <<"p", ":">>
COMMA == <<"p", ",">>
WS == <<"w", " ">>

Str(x) == <<"s", x>>
Num(n) == <<"n", n>>
Word(x) == <<"t", x>>

IsPunct(t, c) == t[1] = "p" /\ t[2] = c

\* String.trim on the text of a frame
RECURSIVE trimFrameLeft(_)
trimFrameLeft(m) == IF m # <<>> /\ Head(m)[1] = "w" THEN trimFrameLeft(Tail(m)) ELSE m

RECURSIVE trimFrameRight(_)
trimFrameRight(m) ==
    IF m # <<>> /\ m[Len(m)][1] = "w"
    THEN trimFrameRight(SubSeq(m, 1, Len(m) - 1)) ELSE m

trimFrame(m) == trimFrameRight(trimFrameLeft(m))

\* JSON.stringify of an object given as a sequence of <<key, value token>>
RECURSIVE stringifyMembers(_)
stringifyMembers(members) ==
    IF members = <<>> THEN <<>>
    ELSE <<Str(members[1][1]), COLON, members[1][2]>>
         \o (IF Len(members) = 1 THEN <<>> ELSE <<COMMA>> \o stringifyMembers(Tail(members)))

stringify(members) == <<LB>> \o stringifyMembers(members) \o <<RB>>

\* white space between JSON tokens is skipped by the parser
RECURSIVE skipWhite(_)
skipWhite(m) ==
    IF m = <<>> THEN <<>>
    ELSE IF Head(m)[1] = "w" THEN skipWhite(Tail(m))
    ELSE <<Head(m)>> \o skipWhite(Tail(m))

ParseFailure == [ok |-> FALSE, obj |-> <<>>]

\* the members between the braces: key : value (, key : value)*; a repeated
\* key keeps its last value
RECURSIVE parseMembers(_)
parseMembers(toks) ==
    IF /\ Len(toks) >= 3
       /\ toks[1][1] = "s"
       /\ IsPunct(toks[2], ":")
       /\ toks[3][1] \in {"s", "n"}
    THEN IF Len(toks) = 3
         THEN [ok |-> TRUE, obj |-> (toks[1][2] :> toks[3])]
         ELSE IF Len(toks) >= 5 /\ IsPunct(toks[4], ",")
         THEN LET rest == parseMembers(SubSeq(toks, 5, Len(toks))) IN
              IF rest.ok
              THEN [ok |-> TRUE, obj |-> rest.obj @@ (toks[1][2] :> toks[3])]
              ELSE ParseFailure
         ELSE ParseFailure
    ELSE ParseFailure

\* JsonParser.parseString(text).getAsJsonObject(): ok is FALSE where the parser
\* raises JsonSyntaxException
parseString(text) ==
    LET toks == skipWhite(text) IN
    IF Len(toks) >= 2 /\ IsPunct(toks[1], "{") /\ IsPunct(toks[Len(toks)], "}")
    THEN IF Len(toks) = 2
         THEN [ok |-> TRUE, obj |-> <<>>]
         ELSE parseMembers(SubSeq(toks, 2, Len(toks) - 1))
    ELSE ParseFailure

has(json, key) == key \in DOMAIN json

\* JsonElement.getAsString of a primitive
getAsString(v) == v[2]

\* JsonElement.getAsInt raises NumberFormatException on a non-numeric string
isInt(v) == v[1] = "n"

getAsInt(v) == v[2]

\* String.toLowerCase on the type names that occur in frames
LowerCaseOf ==
    ("PING" :> "ping") @@ ("Create_Trading_Floor" :> "create_trading_floor")

typeToLowerCase(s) == IF s \in DOMAIN LowerCaseOf THEN LowerCaseOf[s] ELSE s

(***************************************************************************)
(* WebSocketServer (the listener)                                          *)
(***************************************************************************)
NumConns == 3

MaxFrames == 2

Conns == 1..NumConns

VARIABLES
    sockState,         \* per connection: "new", "accepted" (open, onOpen pending), "open",
                       \* "closed" (onClose pending), "gone"
    connectedClients,  \* WebSocketServer.connectedClients: connection -> n of "Client-n", 0 absent
    clientIdCounter,   \* WebSocketServer.clientIdCounter
    worldSpawn,        \* spawn location of the host's world
    framesReceived,    \* number of frames received so far
    handled,           \* the callback or task executed last
    sent,              \* the frames it sent, in order: [to, frame]
    scheduled,         \* the tasks it handed to runTask
    opening,           \* per connection: the n of the clientId a running onOpen has taken
                       \* from the counter and not yet put in connectedClients, 0 none
    allocated,         \* the values getAndIncrement has returned so far, in order
    departures,        \* per n: how often onClose has announced that "Client-n" left
    serverRunning,     \* WebSocketServer.serverRunning
    accepting,         \* the server socket is bound and accepts connections
    serverThread,      \* the thread that start() creates: "none" before start(), "absent"
                       \* when the server is disabled, "starting" until onStart or a
                       \* failed bind, "running" after onStart, "ended"
    shutdownPc,        \* where shutdown() is: "idle", "checked", "notified", "closed",
                       \* "stopped", or "failed" (left through its catch block)
    targets,           \* shutdown(): the sessions whose isOpen() returned true in broadcastToAll
    noticed,           \* the connections that were sent server_shutdown
    unanswered         \* per connection: the frames that arrived on its socket and have
                       \* not been handled yet, in order of arrival

registryVars == <<opening, allocated, departures>>

shutdownVars == <<serverRunning, accepting, serverThread, shutdownPc, targets, noticed>>

listenerVars == <<sockState, connectedClients, clientIdCounter, worldSpawn,
                  framesReceived, handled, sent, scheduled, registryVars, shutdownVars,
                  unanswered>>

\* worlds Bukkit.getWorld resolves
Worlds == {"world"}

Now == "currentTimeMillis"

\* WebSocket.isOpen
isOpen(conn) == sockState[conn] \in {"accepted", "open"}

\* what a piece of handler code did: frames sent, tasks scheduled, and whether
\* an exception left it
Nothing == [sends |-> <<>>, tasks |-> <<>>, thrown |-> FALSE]

Throw == [sends |-> <<>>, tasks |-> <<>>, thrown |-> TRUE]

\* first a, then (unless a threw) b
Then(a, b) ==
    IF a.thrown THEN a
    ELSE [sends |-> a.sends \o b.sends, tasks |-> a.tasks \o b.tasks,
          thrown |-> b.thrown]

\* try { a } catch (Exception e) { b }
Catch(a, b) ==
    IF a.thrown
    THEN [sends |-> a.sends \o b.sends, tasks |-> a.tasks \o b.tasks,
          thrown |-> b.thrown]
    ELSE a

Schedule(tasks) == [sends |-> <<>>, tasks |-> tasks, thrown |-> FALSE]

\* WebSocket.send raises WebsocketNotConnectedException on a connection that is
\* not open
Send(conn, frame) ==
    IF isOpen(conn)
    THEN [sends |-> <<[to |-> conn, frame |-> frame]>>, tasks |-> <<>>, thrown |-> FALSE]
    ELSE Throw

RECURSIVE SendEach(_, _)
SendEach(conns, frame) ==
    IF conns = {} THEN Nothing
    ELSE LET c == CHOOSE x \in conns : \A y \in conns : x <= y IN
         Then(Send(c, frame), SendEach(conns \ {c}, frame))

\* broadcastToAll: every registered connection that is open
broadcastToAll(frame) ==
    SendEach({c \in Conns : connectedClients[c] # 0 /\ isOpen(c)}, frame)

\* a variant that does not exclude the sender
broadcastToOthersIncludingSender(exclude, frame) ==
    SendEach({c \in Conns : connectedClients[c] # 0 /\ isOpen(c)}, frame)

\* broadcastToOthers: as broadcastToAll, without the excluded connection
broadcastToOthers(exclude, frame) ==
    SendEach({c \in Conns : connectedClients[c] # 0 /\ c # exclude /\ isOpen(c)}, frame)

ErrorFrame(errorMessage) ==
    [type |-> "error", message |-> errorMessage, timestamp |-> Now]

sendErrorResponse(conn, errorMessage) == Send(conn, ErrorFrame(errorMessage))

InvalidSizeMessage == <<"Invalid size. Must be between 3 and 100.">>

MinSize == 3

MaxSize == 100

DefaultSize == 10

\* a variant of the size check that accepts any size
sizeRejectedNever(size) == FALSE

\* if (size < 3 || size > 100)
sizeRejected(size) == size < MinSize \/ size > MaxSize

handleCreateTradingFloor(conn, json, clientId) ==
    LET intOk(key) == has(json, key) => isInt(json[key])
        size == IF has(json, "size") THEN getAsInt(json["size"]) ELSE DefaultSize
        worldName == IF has(json, "world") THEN getAsString(json["world"]) ELSE "world"
        centered == has(json, "centerX") /\ has(json, "centerZ")
        refX == IF centered THEN getAsInt(json["centerX"]) ELSE worldSpawn.x
        refZ == IF centered THEN getAsInt(json["centerZ"]) ELSE worldSpawn.z
        b == buildTradingFloorCentered(worldName, refX, refZ, size)
        response ==
            [type |-> "trading_floor_created", success |-> TRUE,
             centerX |-> b.result.centerX, centerY |-> b.result.centerY,
             centerZ |-> b.result.centerZ, size |-> b.result.size,
             world |-> worldName, requestedBy |-> clientId]
        broadcast ==
            [type |-> "trading_floor_created_broadcast",
             centerX |-> b.result.centerX, centerY |-> b.result.centerY,
             centerZ |-> b.result.centerZ, size |-> b.result.size,
             world |-> worldName, createdBy |-> clientId]
        body ==
            IF ~(intOk("size") /\ intOk("centerX") /\ intOk("centerZ"))
            THEN Throw
            ELSE IF sizeRejected(size)
            THEN sendErrorResponse(conn, InvalidSizeMessage)
            ELSE IF worldName \notin Worlds
            THEN sendErrorResponse(conn, <<"World not found: ", worldName>>)
            ELSE Then(Schedule(b.tasks),
                 Then(Send(conn, response), broadcastToOthers(conn, broadcast)))
    IN  Catch(body, sendErrorResponse(conn,
                        <<"Failed to create trading floor: ", "e.getMessage()">>))

handlePing(conn, json) ==
    IF has(json, "timestamp") /\ ~isInt(json["timestamp"])
    THEN Throw
    ELSE Send(conn,
              IF has(json, "timestamp")
              THEN [type |-> "pong", timestamp |-> Now,
                    clientTimestamp |-> getAsInt(json["timestamp"])]
              ELSE [type |-> "pong", timestamp |-> Now])

handleBroadcast(conn, json, clientId) ==
    IF has(json, "message")
    THEN broadcastToAll([type |-> "broadcast_message",
                         message |-> <<getAsString(json["message"])>>,
                         from |-> clientId, timestamp |-> Now])
    ELSE Nothing

handleServerInfo(conn) ==
    Send(conn, [type |-> "server_info",
                connectedClients |-> Cardinality({c \in Conns : connectedClients[c] # 0})])

\* a variant that drops a frame it cannot parse or whose type it does not know
handleJsonMessageIgnoreUnknown(conn, jsonMessage, clientId) ==
    LET parsed == parseString(jsonMessage)
        json == parsed.obj
        type == IF has(json, "type") THEN getAsString(json["type"]) ELSE ""
        kind == typeToLowerCase(type)
    IN  IF ~parsed.ok
        THEN Nothing
        ELSE IF kind = "create_trading_floor" THEN handleCreateTradingFloor(conn, json, clientId)
        ELSE IF kind = "ping" THEN handlePing(conn, json)
        ELSE IF kind = "broadcast" THEN handleBroadcast(conn, json, clientId)
        ELSE IF kind = "get_server_info" THEN handleServerInfo(conn)
        ELSE Nothing

handleJsonMessage(conn, jsonMessage, clientId) ==
    LET parsed == parseString(jsonMessage)
        json == parsed.obj
        type == IF has(json, "type") THEN getAsString(json["type"]) ELSE ""
        kind == typeToLowerCase(type)
    IN  IF ~parsed.ok
        THEN sendErrorResponse(conn, <<"Invalid JSON format">>)
        ELSE IF kind = "create_trading_floor" THEN handleCreateTradingFloor(conn, json, clientId)
        ELSE IF kind = "ping" THEN handlePing(conn, json)
        ELSE IF kind = "broadcast" THEN handleBroadcast(conn, json, clientId)
        ELSE IF kind = "get_server_info" THEN handleServerInfo(conn)
        ELSE sendErrorResponse(conn, <<"Unknown message type: ", type>>)

\* a variant that logs a plain-text frame and sends no echo
handlePlainTextMessageSilent(conn, message, clientId) == Nothing

handlePlainTextMessage(conn, message, clientId) ==
    Send(conn, [type |-> "echo", originalMessage |-> message, from |-> clientId])

handleMessage(conn, message, clientId) ==
    LET t == trimFrame(message)
        body ==
            IF /\ t # <<>>
               /\ IsPunct(t[1], "{")
               /\ IsPunct(t[Len(t)], "}")
            THEN handleJsonMessage(conn, message, clientId)
            ELSE handlePlainTextMessage(conn, message, clientId)
    IN  Catch(body, sendErrorResponse(conn,
                        <<"Error processing message: ", "e.getMessage()">>))

MessageTask(conn, message, clientId) ==
    [kind |-> "handleMessage", conn |-> conn, message |-> message,
     clientId |-> clientId]

(***************************************************************************)
(* BmWorldController (connector): inbound message processing               *)
(***************************************************************************)
stripColorCodes == TRUE

maxCommandLength == 256

validateCommands == TRUE

ColorCodeChars ==
    {"0","1","2","3","4","5","6","7","8","9","a","b","c","d","e","f",
     "k","l","m","n","o","r"}

\* the pattern &[0-9a-fk-or] matches at position i of s; two matches never
\* overlap, since the second character of a match is not "&"
ColorCodeAt(s, i) == i < Len(s) /\ s[i] = "&" /\ s[i + 1] \in ColorCodeChars

\* the characters of s[lo..hi] that belong to no match
RECURSIVE WithoutColorCodes(_, _, _)
WithoutColorCodes(s, lo, hi) ==
    IF lo > hi THEN <<>>
    ELSE IF lo = hi
    THEN IF ColorCodeAt(s, lo) \/ (lo > 1 /\ ColorCodeAt(s, lo - 1)) THEN <<>> ELSE <<s[lo]>>
    ELSE LET mid == (lo + hi) \div 2 IN
         WithoutColorCodes(s, lo, mid) \o WithoutColorCodes(s, mid + 1, hi)

\* processed.replaceAll("&[0-9a-fk-or]", "")
removeColorCodes(s) == WithoutColorCodes(s, 1, Len(s))

\* String.contains
contains(s, sub) ==
    \E i \in 1..(Len(s) - Len(sub) + 1) : SubSeq(s, i, i + Len(sub) - 1) = sub

\* a variant that lets ";" through
isValidCommandNoSemicolon(command) ==
    /\ trim(command) # <<>>
    /\ split(command) # <<>>
    /\ ~contains(command, <<"&","&">>)
    /\ ~contains(command, <<"|","|">>)

isValidCommand(command) ==
    /\ trim(command) # <<>>
    /\ split(command) # <<>>
    /\ ~contains(command, <<"&","&">>)
    /\ ~contains(command, <<"|","|">>)
    /\ ~contains(command, <<";">>)

NullMessage == [isNull |-> TRUE, text |-> <<>>]

\* processMessage: the processed text, or null
processMessage(message) ==
    LET trimmed == trim(message)
        stripped == IF stripColorCodes THEN removeColorCodes(trimmed) ELSE trimmed
        processed == IF maxCommandLength > 0 /\ Len(stripped) > maxCommandLength
                     THEN SubSeq(stripped, 1, maxCommandLength) ELSE stripped
    IN  IF validateCommands /\ ~isValidCommand(processed)
        THEN NullMessage
        ELSE [isNull |-> FALSE, text |-> processed]

\* handleWebSocketMessage: what executeCommand did, if it was called
handleWebSocketMessage(message, hostOutcome) ==
    LET processedMessage == processMessage(message) IN
    IF ~processedMessage.isNull /\ trim(processedMessage.text) # <<>>
    THEN LET r == executeCommand(processedMessage.text, hostOutcome) IN
         [called |-> TRUE, command |-> processedMessage.text, ret |-> r.ret,
          dispatch |-> r.dispatch, thrown |-> r.thrown]
    ELSE NoExec

CommandTask(message) == [kind |-> "command", message |-> message]

(***************************************************************************)
(* WebSocketManager (connector): connection state                          *)
(***************************************************************************)
maxReconnectAttempts == 5

MaxClients == 3

MaxPending == 2

MaxHubFrames == 1

Clients == 1..MaxClients

VARIABLES
    role,              \* which code is running: "listener" or "connector" (the two
                       \* BmWorldController classes), "executor" or "builder" (direct calls)
    autoReconnect,     \* BmWorldController.autoReconnect (config websocket.auto-reconnect)
    isConnected,       \* WebSocketManager.isConnected
    reconnectAttempts, \* WebSocketManager.reconnectAttempts
    webSocketClient,   \* WebSocketManager.webSocketClient: slot of the client created
                       \* last, 0 = null
    clientState,       \* per WebSocketClient object: "none" (no such object), "created",
                       \* "connecting", "open", "closing" (onClose pending), "closed"
    closeCode,         \* per client: the code its pending onClose carries
    pendingConnects,   \* CompletableFuture.runAsync lambdas of connect() not yet run
    inSchedule,        \* threads inside scheduleReconnect, past its guard
    reconnectTasks,    \* delayed reconnect tasks not yet run
    hubReachable,      \* whether the hub accepts connections
    failedAttempts,    \* connection attempts that failed since the last successful open
    scheduledReconnects, \* reconnects scheduled since the last open or forceReconnect
    disconnected,      \* disconnect() has been called, and forceReconnect() not since
    locallyClosed,     \* the clients whose pending onClose was caused by disconnect()
    lastCall           \* the call or callback of WebSocketManager executed last

\* what the observer records besides the last call
observerVars == <<disconnected, locallyClosed>>

connectorVars == <<role, autoReconnect, isConnected, reconnectAttempts, webSocketClient,
                   clientState, closeCode, pendingConnects, inSchedule, reconnectTasks,
                   hubReachable, failedAttempts, scheduledReconnects, observerVars,
                   lastCall>>

\* a call of WebSocketManager as the observer records it: the close code of an
\* onClose, whether it scheduled a reconnect and whether disconnect() caused it;
\* reconnectAttempts and isConnected before the call; whether a sendMessage
\* delivered its frame, and whether an exception left the call
Call(kind, code, didSchedule, local, delivered, thrown) ==
    [kind |-> kind, code |-> code, scheduled |-> didSchedule, local |-> local,
     attempts |-> reconnectAttempts, connected |-> isConnected,
     delivered |-> delivered, thrown |-> thrown]

NoCall == [kind |-> "none", code |-> 0, scheduled |-> FALSE, local |-> FALSE,
           attempts |-> 0, connected |-> FALSE, delivered |-> FALSE, thrown |-> FALSE]

NormalClosure == 1000

\* a counter that stops counting one past the limit it is compared with
CountUpTo(n, limit) == IF n > limit THEN n ELSE n + 1

(***************************************************************************)
(* SimulationSocketClient (the mineflayer client)                          *)
(***************************************************************************)
MaxTrades == 4

MaxSimulations == 2

VARIABLES
    tradeQueue,           \* SimulationSocketClient.tradeQueue: the ids of the queued trades
    isProcessingTrades,   \* SimulationSocketClient.isProcessingTrades
    currentSimulation,    \* SimulationSocketClient.currentSimulation: 0 is null, n the
                          \* n-th simulation created
    simulations,          \* how many simulations have been created
    tradeCounter,         \* how many trades have been queued
    inFlight,             \* the trade of the processTradeQueue invocation that waits at
                          \* its await, 0 when none does
    handedOver,           \* the trades handed to trade_timestep, in order
    cleared,              \* the trades that were in the queue when it was cleared
    tradeStep             \* the handler executed last and the trade it handed over

tradeVars == <<tradeQueue, isProcessingTrades, currentSimulation, simulations, tradeCounter,
               inFlight, handedOver, cleared, tradeStep>>

NoTradeStep == [kind |-> "none", handed |-> 0, thrown |-> FALSE]

TradeStep(kind, handed, thrown) == [kind |-> kind, handed |-> handed, thrown |-> thrown]

Range(s) == {s[i] : i \in DOMAIN s}

\* Array.prototype.pop: the last element
pop(queue) == [value |-> queue[Len(queue)], rest |-> SubSeq(queue, 1, Len(queue) - 1)]
(***************************************************************************)
(* Direct calls of the builder                                             *)
(***************************************************************************)
VARIABLES
    lastBuild          \* the most recent direct call of a builder entry point

builderVars == <<lastBuild>>

vars == <<policyVars, hostVars, listenerVars, connectorVars, builderVars, tradeVars>>

NoBuild == [called |-> FALSE, fn |-> "", x |-> 0, z |-> 0, size |-> 0,
            result |-> TradingFloorResult(0, 0, 0), scheduled |-> 0, thrown |-> FALSE]

NoActivity == [kind |-> "none", conn |-> 0, message |-> <<>>, clientId |-> 0,
               escaped |-> FALSE]

Activity(kind, conn, message, clientId, escaped) ==
    [kind |-> kind, conn |-> conn, message |-> message, clientId |-> clientId,
     escaped |-> escaped]

(***************************************************************************)
(* The host's update thread                                                *)
(***************************************************************************)
\* the run() of the BukkitRunnable scheduled by buildTradingFloor, on a thread
ExecuteBuild(task, thread) ==
    /\ built' = built \cup {task}
    /\ mutations' = mutations \cup {[what |-> "setType", thread |-> thread]}

\* messageHandler.accept(message) = handleWebSocketMessage(message), on a thread
ExecuteCommandMessage(message, thread) ==
    \E hostOutcome \in HostOutcomes :
        LET r == handleWebSocketMessage(message, hostOutcome) IN
        /\ lastExec' = r
        /\ mutations' = IF r.dispatch # NoDispatch
                        THEN mutations \cup {[what |-> "dispatchCommand", thread |-> thread]}
                        ELSE mutations

\* the update thread runs the build task at the head of its queue
RunBuild ==
    /\ mainQueue # <<>>
    /\ Head(mainQueue).kind = "build"
    /\ ExecuteBuild(Head(mainQueue), "main")
    /\ mainQueue' = Tail(mainQueue)
    /\ handled' = Activity("build", 0, <<>>, 0, FALSE)
    /\ sent' = <<>>
    /\ scheduled' = <<>>
    /\ UNCHANGED <<tradeVars, policyVars, connectorVars, builderVars, sockState, connectedClients,
                   clientIdCounter, registryVars, worldSpawn, shutdownVars, unanswered,
                   framesReceived>>

\* s without its i-th element
RemoveAt(s, i) == SubSeq(s, 1, i - 1) \o SubSeq(s, i + 1, Len(s))

\* a variant in which the scheduler runs the waiting tasks in any order
RunHandleMessageAnyOrder ==
    /\ \E i \in 1..Len(mainQueue) :
        /\ mainQueue[i].kind = "handleMessage"
        /\ LET task == mainQueue[i]
               eff == handleMessage(task.conn, task.message, task.clientId)
           IN  /\ mainQueue' = RemoveAt(mainQueue, i) \o eff.tasks
               /\ sent' = eff.sends
               /\ scheduled' = eff.tasks
               /\ handled' = Activity("handleMessage", task.conn, task.message,
                                      task.clientId, eff.thrown)
               /\ unanswered' = [unanswered EXCEPT ![task.conn] = Tail(@)]
    /\ UNCHANGED <<tradeVars, policyVars, connectorVars, builderVars, mutations, built,
                   sockState, connectedClients, clientIdCounter, registryVars,
                   worldSpawn, shutdownVars, framesReceived>>

\* a variant in which the handler makes the block writes of the builds itself
RunHandleMessageBuildInline ==
    /\ mainQueue # <<>>
    /\ Head(mainQueue).kind = "handleMessage"
    /\ LET task == Head(mainQueue)
           eff == handleMessage(task.conn, task.message, task.clientId)
       IN  /\ mainQueue' = Tail(mainQueue)
           /\ built' = built \cup {eff.tasks[i] : i \in DOMAIN eff.tasks}
           /\ mutations' = IF eff.tasks # <<>>
                           THEN mutations \cup {[what |-> "setType", thread |-> "main"]}
                           ELSE mutations
           /\ sent' = eff.sends
           /\ scheduled' = eff.tasks
           /\ handled' = Activity("handleMessage", task.conn, task.message,
                                  task.clientId, eff.thrown)
           /\ unanswered' = [unanswered EXCEPT ![task.conn] = Tail(@)]
    /\ UNCHANGED <<tradeVars, policyVars, connectorVars, builderVars,
                   sockState, connectedClients, clientIdCounter, registryVars,
                   worldSpawn, shutdownVars,
                   framesReceived>>

\* the update thread runs handleMessage(conn, message, clientId)
RunHandleMessage ==
    /\ mainQueue # <<>>
    /\ Head(mainQueue).kind = "handleMessage"
    /\ LET task == Head(mainQueue)
           eff == handleMessage(task.conn, task.message, task.clientId)
       IN  /\ mainQueue' = Tail(mainQueue) \o eff.tasks
           /\ sent' = eff.sends
           /\ scheduled' = eff.tasks
           /\ handled' = Activity("handleMessage", task.conn, task.message,
                                  task.clientId, eff.thrown)
           /\ unanswered' = [unanswered EXCEPT ![task.conn] = Tail(@)]
    /\ UNCHANGED <<tradeVars, policyVars, connectorVars, builderVars, mutations, built,
                   sockState, connectedClients, clientIdCounter, registryVars,
                   worldSpawn, shutdownVars,
                   framesReceived>>

\* the update thread runs the connector's message handler
RunCommand ==
    /\ mainQueue # <<>>
    /\ Head(mainQueue).kind = "command"
    /\ ExecuteCommandMessage(Head(mainQueue).message, "main")
    /\ mainQueue' = Tail(mainQueue)
    /\ UNCHANGED <<tradeVars, allowedCommands, blockedCommands, built, listenerVars,
                   connectorVars, builderVars>>

(***************************************************************************)
(* WebSocketServer callbacks                                               *)
(***************************************************************************)
\* a peer completes the handshake; connections are numbered in order of arrival
Accept(c) ==
    /\ role = "listener"
    /\ accepting
    /\ sockState[c] = "new"
    /\ \A d \in Conns : d < c => sockState[d] # "new"
    /\ sockState' = [sockState EXCEPT ![c] = "accepted"]
    /\ handled' = NoActivity
    /\ sent' = <<>>
    /\ scheduled' = <<>>
    /\ UNCHANGED <<tradeVars, policyVars, hostVars, connectorVars, builderVars, connectedClients,
                   clientIdCounter, registryVars, worldSpawn, shutdownVars, unanswered,
                   framesReceived>>

WelcomeFrame(clientId) ==
    [type |-> "welcome", message |-> <<"Connected to BlockMarket World Controller">>,
     clientId |-> clientId, server |-> "Minecraft WebSocket Server"]

\* onOpen(conn, handshake)
OnOpen(c) ==
    /\ role = "listener"
    /\ sockState[c] = "accepted"
    /\ LET clientId == clientIdCounter
           eff == Then(Send(c, WelcomeFrame(clientId)),
                       broadcastToOthers(c, [type |-> "client_connected",
                                             clientId |-> clientId]))
       IN  /\ connectedClients' = [connectedClients EXCEPT ![c] = clientId]
           /\ clientIdCounter' = clientIdCounter + 1
           /\ allocated' = Append(allocated, clientId)
           /\ sent' = eff.sends
           /\ handled' = Activity("onOpen", c, <<>>, clientId, eff.thrown)
    /\ sockState' = [sockState EXCEPT ![c] = "open"]
    /\ scheduled' = <<>>
    /\ UNCHANGED <<tradeVars, policyVars, hostVars, connectorVars, builderVars, worldSpawn,
                   shutdownVars, unanswered,
                   framesReceived, opening, departures>>

\* the socket of a session closes (the peer leaves or the link is lost)
SocketClosed(c) ==
    /\ role = "listener"
    /\ sockState[c] = "open"
    /\ sockState' = [sockState EXCEPT ![c] = "closed"]
    /\ handled' = NoActivity
    /\ sent' = <<>>
    /\ scheduled' = <<>>
    /\ UNCHANGED <<tradeVars, policyVars, hostVars, connectorVars, builderVars, connectedClients,
                   clientIdCounter, registryVars, worldSpawn, shutdownVars, unanswered,
                   framesReceived>>

\* departures after an onClose that found clientId in the registry (0: found none)
Departed(clientId) ==
    IF clientId \in DOMAIN departures
    THEN [departures EXCEPT ![clientId] = @ + 1]
    ELSE departures

\* a variant of onClose that reads the registry entry and leaves it in place
OnCloseKeepingEntry(c) ==
    /\ role = "listener"
    /\ sockState[c] = "closed"
    /\ LET clientId == connectedClients[c]
           eff == IF clientId # 0
                  THEN broadcastToOthers(c, [type |-> "client_disconnected",
                                             clientId |-> clientId])
                  ELSE Nothing
       IN  /\ sent' = eff.sends
           /\ handled' = Activity("onClose", c, <<>>, clientId, eff.thrown)
           /\ departures' = Departed(clientId)
    /\ sockState' = [sockState EXCEPT ![c] = "gone"]
    /\ scheduled' = <<>>
    /\ UNCHANGED <<tradeVars, policyVars, hostVars, connectorVars, builderVars, connectedClients,
                   clientIdCounter, opening, allocated, worldSpawn, shutdownVars, unanswered,
                   framesReceived>>

\* onClose(conn, code, reason, remote)
OnClose(c) ==
    /\ role = "listener"
    /\ sockState[c] = "closed"
    /\ LET clientId == connectedClients[c]
           eff == IF clientId # 0
                  THEN broadcastToOthers(c, [type |-> "client_disconnected",
                                             clientId |-> clientId])
                  ELSE Nothing
       IN  /\ connectedClients' = [connectedClients EXCEPT ![c] = 0]
           /\ sent' = eff.sends
           /\ handled' = Activity("onClose", c, <<>>, clientId, eff.thrown)
           /\ departures' = Departed(clientId)
    /\ sockState' = [sockState EXCEPT ![c] = "gone"]
    /\ scheduled' = <<>>
    /\ UNCHANGED <<tradeVars, policyVars, hostVars, connectorVars, builderVars, clientIdCounter,
                   opening, allocated, worldSpawn, shutdownVars, unanswered, framesReceived>>

\* onMessage(conn, message): hands handleMessage to the update thread
OnMessage(c, message) ==
    /\ role = "listener"
    /\ sockState[c] = "open"
    /\ framesReceived < MaxFrames
    /\ framesReceived' = framesReceived + 1
    /\ LET task == MessageTask(c, message, connectedClients[c]) IN
       /\ mainQueue' = Append(mainQueue, task)
       /\ scheduled' = <<task>>
    /\ handled' = Activity("onMessage", c, message, connectedClients[c], FALSE)
    /\ unanswered' = [unanswered EXCEPT ![c] = Append(@, message)]
    /\ sent' = <<>>
    /\ UNCHANGED <<tradeVars, policyVars, connectorVars, builderVars, mutations, built,
                   sockState, connectedClients, clientIdCounter, registryVars,
                   worldSpawn, shutdownVars>>

(***************************************************************************)
(* Frames the peers of the listener send                                   *)
(***************************************************************************)
TypeMember(t) == <<"type", Str(t)>>

\* requests with a size outside 3..100
BadSizeRequests ==
    {<<TypeMember("create_trading_floor"), <<"size", Num(150)>>>>,
     <<TypeMember("create_trading_floor"), <<"size", Num(2)>>,
       <<"world", Str("nether")>>>>}

\* requests with a valid size that name a world the host does not have
BadWorldRequests ==
    {<<TypeMember("create_trading_floor"), <<"size", Num(5)>>,
       <<"world", Str("nether")>>>>}

\* requests that pass validation: built around the spawn, or around a given center
GoodRequests ==
    {<<TypeMember("create_trading_floor")>>,
     <<TypeMember("create_trading_floor"), <<"size", Num(15)>>,
       <<"centerX", Num(-4)>>, <<"centerZ", Num(9)>>, <<"world", Str("world")>>>>}

CreateRequests == BadSizeRequests \cup BadWorldRequests \cup GoodRequests

\* the frame {"type": of scenario D, and one that also closes the brace
TruncatedFrame == <<LB, Str("type"), COLON>>

ClosedTruncatedFrame == <<LB, Str("type"), COLON, RB>>

MalformedFrames == {TruncatedFrame, ClosedTruncatedFrame}

ListenerFrames == {stringify(m) : m \in CreateRequests} \cup MalformedFrames

\* the value of a member of a request, for a key it carries
MemberOf(members, key) ==
    members[CHOOSE i \in 1..Len(members) : members[i][1] = key][2][2]

HasMember(members, key) == \E i \in 1..Len(members) : members[i][1] = key


\* ---------------------------------------------------------------------------
\* onOpen in two steps. The library calls onOpen from a worker thread and
\* onClose from the selector thread (end of stream, I/O error) or from the
\* connection-lost timer, so an onClose of a connection can run while the
\* onOpen of that connection, or of another one, is between two statements.

\* a variant of the first statement that reads the counter without advancing it
OnOpenAllocateNoIncrement(c) ==
    /\ role = "listener"
    /\ sockState[c] = "accepted"
    /\ opening[c] = 0
    /\ opening' = [opening EXCEPT ![c] = clientIdCounter]
    /\ allocated' = Append(allocated, clientIdCounter)
    /\ handled' = NoActivity
    /\ sent' = <<>>
    /\ scheduled' = <<>>
    /\ UNCHANGED <<tradeVars, policyVars, hostVars, connectorVars, builderVars, sockState,
                   connectedClients, clientIdCounter, departures, worldSpawn,
                   shutdownVars, unanswered,
                   framesReceived>>

\* onOpen, first statement: clientId = "Client-" + clientIdCounter.getAndIncrement()
OnOpenAllocate(c) ==
    /\ role = "listener"
    /\ sockState[c] = "accepted"
    /\ opening[c] = 0
    /\ opening' = [opening EXCEPT ![c] = clientIdCounter]
    /\ clientIdCounter' = AddInt32(clientIdCounter, 1)
    /\ allocated' = Append(allocated, clientIdCounter)
    /\ handled' = NoActivity
    /\ sent' = <<>>
    /\ scheduled' = <<>>
    /\ UNCHANGED <<tradeVars, policyVars, hostVars, connectorVars, builderVars, sockState,
                   connectedClients, departures, worldSpawn, shutdownVars, unanswered,
                   framesReceived>>

\* a variant of the rest of onOpen that announces the session to every open
\* session, the new one included
OnOpenRegisterAnnounceToAll(c) ==
    /\ role = "listener"
    /\ opening[c] # 0
    /\ LET clientId == opening[c]
           eff == Then(Send(c, WelcomeFrame(clientId)),
                       SendEach({d \in Conns : (connectedClients[d] # 0 \/ d = c)
                                                  /\ isOpen(d)},
                                [type |-> "client_connected", clientId |-> clientId]))
       IN  /\ connectedClients' = [connectedClients EXCEPT ![c] = clientId]
           /\ sent' = eff.sends
           /\ handled' = Activity("onOpen", c, <<>>, clientId, eff.thrown)
    /\ opening' = [opening EXCEPT ![c] = 0]
    /\ sockState' = [sockState EXCEPT ![c] = IF @ = "accepted" THEN "open" ELSE @]
    /\ scheduled' = <<>>
    /\ UNCHANGED <<tradeVars, policyVars, hostVars, connectorVars, builderVars, clientIdCounter,
                   allocated, departures, worldSpawn, shutdownVars, unanswered, framesReceived>>

\* onOpen, the rest: connectedClients.put, the welcome frame, the broadcast
OnOpenRegister(c) ==
    /\ role = "listener"
    /\ opening[c] # 0
    /\ LET clientId == opening[c]
           eff == Then(Send(c, WelcomeFrame(clientId)),
                       broadcastToOthers(c, [type |-> "client_connected",
                                             clientId |-> clientId]))
       IN  /\ connectedClients' = [connectedClients EXCEPT ![c] = clientId]
           /\ sent' = eff.sends
           /\ handled' = Activity("onOpen", c, <<>>, clientId, eff.thrown)
    /\ opening' = [opening EXCEPT ![c] = 0]
    /\ sockState' = [sockState EXCEPT ![c] = IF @ = "accepted" THEN "open" ELSE @]
    /\ scheduled' = <<>>
    /\ UNCHANGED <<tradeVars, policyVars, hostVars, connectorVars, builderVars, clientIdCounter,
                   allocated, departures, worldSpawn, shutdownVars, unanswered, framesReceived>>

\* onOpen, second statement alone: connectedClients.put(conn, clientId). The
\* welcome frame and the broadcast follow in OnOpenRegister, whose put then
\* changes nothing.
OnOpenPut(c) ==
    /\ role = "listener"
    /\ opening[c] # 0
    /\ connectedClients[c] = 0
    /\ connectedClients' = [connectedClients EXCEPT ![c] = opening[c]]
    /\ handled' = NoActivity
    /\ sent' = <<>>
    /\ scheduled' = <<>>
    /\ UNCHANGED <<tradeVars, policyVars, hostVars, connectorVars, builderVars, sockState,
                   clientIdCounter, registryVars, worldSpawn, shutdownVars, unanswered,
                   framesReceived>>

\* the socket of a connection closes while its onOpen is running
SocketClosedDuringOpen(c) ==
    /\ role = "listener"
    /\ sockState[c] = "accepted"
    /\ opening[c] # 0
    /\ sockState' = [sockState EXCEPT ![c] = "closed"]
    /\ handled' = NoActivity
    /\ sent' = <<>>
    /\ scheduled' = <<>>
    /\ UNCHANGED <<tradeVars, policyVars, hostVars, connectorVars, builderVars, connectedClients,
                   clientIdCounter, registryVars, worldSpawn, shutdownVars, unanswered,
                   framesReceived>>

\* onClose is delivered for a connection whose onClose has already run
OnCloseAgain(c) ==
    /\ role = "listener"
    /\ sockState[c] = "gone"
    /\ LET clientId == connectedClients[c]
           eff == IF clientId # 0
                  THEN broadcastToOthers(c, [type |-> "client_disconnected",
                                             clientId |-> clientId])
                  ELSE Nothing
       IN  /\ connectedClients' = [connectedClients EXCEPT ![c] = 0]
           /\ sent' = eff.sends
           /\ handled' = Activity("onClose", c, <<>>, clientId, eff.thrown)
           /\ departures' = Departed(clientId)
    /\ scheduled' = <<>>
    /\ UNCHANGED <<tradeVars, policyVars, hostVars, connectorVars, builderVars, sockState,
                   clientIdCounter, opening, allocated, worldSpawn, shutdownVars, unanswered,
                   framesReceived>>

\* ---------------------------------------------------------------------------
\* WebSocketServer.shutdown(), called on the server thread by onDisable. Socket
\* events and the callbacks of the library's threads can happen between its
\* statements: between the isOpen() and the send() of broadcastToAll, between
\* the broadcast and the close loop, and between the close loop and stop().

GoingAway == 1001

ShutdownFrame == [type |-> "server_shutdown", message |-> <<"Server is shutting down">>]

\* the close frame that close(code, reason) sends
CloseFrame(code, reason) == [type |-> "CLOSE", code |-> code, reason |-> reason]

RECURSIVE CloseEach(_, _, _)
CloseEach(conns, code, reason) ==
    IF conns = {} THEN <<>>
    ELSE LET c == CHOOSE x \in conns : \A y \in conns : x <= y IN
         <<[to |-> c, frame |-> CloseFrame(code, reason)]>>
             \o CloseEach(conns \ {c}, code, reason)

\* shutdown(): serverRunning = false, and the isOpen() tests of broadcastToAll
ShutdownCheck ==
    /\ role = "listener"
    /\ shutdownPc = "idle"
    /\ serverThread \notin {"none", "absent"}
    /\ serverRunning' = FALSE
    /\ targets' = {c \in Conns : connectedClients[c] # 0 /\ isOpen(c)}
    /\ shutdownPc' = "checked"
    /\ handled' = Activity("shutdown", 0, <<>>, 0, FALSE)
    /\ sent' = <<>>
    /\ scheduled' = <<>>
    /\ UNCHANGED <<tradeVars, policyVars, hostVars, connectorVars, builderVars, sockState,
                   connectedClients, clientIdCounter, registryVars, worldSpawn,
                   framesReceived, accepting, serverThread, noticed, unanswered>>

\* shutdown(): the send() calls of broadcastToAll; an exception leaves the try block
ShutdownSend ==
    /\ role = "listener"
    /\ shutdownPc = "checked"
    /\ LET eff == SendEach(targets, ShutdownFrame) IN
       /\ sent' = eff.sends
       /\ noticed' = {eff.sends[i].to : i \in 1..Len(eff.sends)}
       /\ shutdownPc' = IF eff.thrown THEN "failed" ELSE "notified"
    /\ handled' = Activity("shutdown", 0, <<>>, 0, FALSE)
    /\ scheduled' = <<>>
    /\ UNCHANGED <<tradeVars, policyVars, hostVars, connectorVars, builderVars, sockState,
                   connectedClients, clientIdCounter, registryVars, worldSpawn,
                   framesReceived, serverRunning, accepting, serverThread, targets, unanswered>>

\* shutdown(): client.close(1001, "Server shutdown") for every key of connectedClients;
\* close() does nothing on a connection that is not open
ShutdownCloseAll ==
    /\ role = "listener"
    /\ shutdownPc = "notified"
    /\ LET closing == {c \in Conns : connectedClients[c] # 0 /\ isOpen(c)} IN
       /\ sent' = CloseEach(closing, GoingAway, <<"Server shutdown">>)
       /\ sockState' = [c \in Conns |-> IF c \in closing THEN "closed" ELSE sockState[c]]
    /\ shutdownPc' = "closed"
    /\ handled' = Activity("shutdown", 0, <<>>, 0, FALSE)
    /\ scheduled' = <<>>
    /\ UNCHANGED <<tradeVars, policyVars, hostVars, connectorVars, builderVars, connectedClients,
                   clientIdCounter, registryVars, worldSpawn, framesReceived,
                   serverRunning, accepting, serverThread, targets, noticed, unanswered>>

\* shutdown(): stop(), which closes the connections that are still open (those
\* whose onOpen has not been called get neither onOpen nor onClose) and then the
\* server socket
ShutdownStop ==
    /\ role = "listener"
    /\ shutdownPc = "closed"
    /\ LET closing == {c \in Conns : sockState[c] = "open"} IN
       /\ sent' = CloseEach(closing, GoingAway, <<>>)
       /\ sockState' = [c \in Conns |-> IF c \in closing THEN "closed"
                                        ELSE IF sockState[c] = "accepted" THEN "gone"
                                        ELSE sockState[c]]
    /\ accepting' = FALSE
    /\ serverThread' = IF serverThread = "running" THEN "ended" ELSE serverThread
    /\ shutdownPc' = "stopped"
    /\ handled' = Activity("shutdown", 0, <<>>, 0, FALSE)
    /\ scheduled' = <<>>
    /\ UNCHANGED <<tradeVars, policyVars, hostVars, connectorVars, builderVars, connectedClients,
                   clientIdCounter, registryVars, worldSpawn, framesReceived,
                   serverRunning, targets, noticed, unanswered>>
\* ---------------------------------------------------------------------------
\* The life of the listener's server: onEnable constructs it and calls start(),
\* which returns at once; the thread that start() creates binds the port and
\* calls onStart, or reports a failed bind to onError; onDisable calls
\* shutdown(). The callbacks run on the server's thread, shutdown() on the
\* host's, so they can happen in either order.

\* initializeWebSocketServer: nothing is constructed when websocket.enabled is false
Enable(webSocketEnabled) ==
    /\ role = "listener"
    /\ serverThread = "none"
    /\ serverThread' = IF webSocketEnabled THEN "starting" ELSE "absent"
    /\ handled' = NoActivity
    /\ sent' = <<>>
    /\ scheduled' = <<>>
    /\ UNCHANGED <<tradeVars, policyVars, hostVars, connectorVars, builderVars, sockState,
                   connectedClients, clientIdCounter, registryVars, worldSpawn,
                   framesReceived, serverRunning, accepting, shutdownPc, targets,
                   noticed, unanswered>>

\* onStart, called by the server's thread once the port is bound. When stop()
\* has already been called the thread ends soon after the callback.
OnStart ==
    /\ role = "listener"
    /\ serverThread = "starting"
    /\ serverRunning' = TRUE
    /\ accepting' = (shutdownPc # "stopped")
    /\ serverThread' = IF shutdownPc = "stopped" THEN "ended" ELSE "running"
    /\ handled' = Activity("onStart", 0, <<>>, 0, FALSE)
    /\ sent' = <<>>
    /\ scheduled' = <<>>
    /\ UNCHANGED <<tradeVars, policyVars, hostVars, connectorVars, builderVars, sockState,
                   connectedClients, clientIdCounter, registryVars, worldSpawn,
                   framesReceived, shutdownPc, targets, noticed, unanswered>>

\* onError(null, ex): the port could not be bound. connectedClients.get(null)
\* throws, the callback ends there and so does the server's thread.
BindFails ==
    /\ role = "listener"
    /\ serverThread = "starting"
    /\ serverThread' = "ended"
    /\ handled' = Activity("onError", 0, <<>>, 0, TRUE)
    /\ sent' = <<>>
    /\ scheduled' = <<>>
    /\ UNCHANGED <<tradeVars, policyVars, hostVars, connectorVars, builderVars, sockState,
                   connectedClients, clientIdCounter, registryVars, worldSpawn,
                   framesReceived, serverRunning, accepting, shutdownPc, targets,
                   noticed, unanswered>>

\* the server's thread finds the server stopped before it binds the port and
\* ends without a callback
ThreadEndsUnstarted ==
    /\ role = "listener"
    /\ serverThread = "starting"
    /\ shutdownPc = "stopped"
    /\ serverThread' = "ended"
    /\ handled' = NoActivity
    /\ sent' = <<>>
    /\ scheduled' = <<>>
    /\ UNCHANGED <<tradeVars, policyVars, hostVars, connectorVars, builderVars, sockState,
                   connectedClients, clientIdCounter, registryVars, worldSpawn,
                   framesReceived, serverRunning, accepting, shutdownPc, targets,
                   noticed, unanswered>>
(***************************************************************************)
(* WebSocketManager callbacks and tasks                                    *)
(*                                                                         *)
(* A WebSocketClient object occupies a slot of clientState from connect()  *)
(* until it is closed and no longer referenced by webSocketClient.         *)
(***************************************************************************)
\* the codes onClose carries when an open connection ends: closed normally, or lost
EndCodes == {NormalClosure, 1006}

\* the code onClose carries when the client never connected
FailureCodes == {-1}

FreeSlots(states) == {c \in Clients : states[c] = "none"}

\* a client that webSocketClient no longer references is garbage once it is
\* closed, and also if it was never started: only the client the field holds
\* is ever started
Collect(states, current) ==
    [c \in Clients |-> IF states[c] \in {"closed", "created"} /\ c # current
                       THEN "none" ELSE states[c]]

\* connect(): creates the client, stores it in webSocketClient and hands the
\* lambda that calls webSocketClient.connect() to CompletableFuture.runAsync;
\* states is the clientState to build on; the client the field held is no
\* longer referenced
connect(states) ==
    LET kept == Collect(states, 0) IN
    /\ FreeSlots(kept) # {}
    /\ pendingConnects < MaxPending
    /\ LET c == CHOOSE x \in FreeSlots(kept) : \A y \in FreeSlots(kept) : x <= y IN
       /\ webSocketClient' = c
       /\ clientState' = [kept EXCEPT ![c] = "created"]
    /\ pendingConnects' = pendingConnects + 1

\* a step in which connect() is executed: only connect() adds a lambda
ConnectIssued == pendingConnects' = pendingConnects + 1

\* a runAsync lambda runs: webSocketClient.connect() starts the client the field
\* holds now, or raises IllegalStateException if that client was started before,
\* and then the catch block calls scheduleReconnect()
AsyncConnectRuns ==
    /\ role = "connector"
    /\ pendingConnects > 0
    /\ pendingConnects' = pendingConnects - 1
    /\ IF clientState[webSocketClient] = "created"
       THEN /\ clientState' = [clientState EXCEPT ![webSocketClient] = "connecting"]
            /\ UNCHANGED inSchedule
       ELSE /\ inSchedule < MaxPending
            /\ inSchedule' = IF reconnectAttempts >= maxReconnectAttempts
                             THEN inSchedule ELSE inSchedule + 1
            /\ UNCHANGED clientState
    /\ lastCall' = NoCall
    /\ UNCHANGED <<tradeVars, policyVars, hostVars, listenerVars, builderVars, observerVars, role,
                   autoReconnect,
                   isConnected, reconnectAttempts, webSocketClient, closeCode,
                   reconnectTasks, hubReachable, failedAttempts, scheduledReconnects>>

\* onOpen(handshake) of client c
ClientOnOpen(c) ==
    /\ role = "connector"
    /\ clientState[c] = "connecting"
    /\ hubReachable
    /\ clientState' = [clientState EXCEPT ![c] = "open"]
    /\ isConnected' = TRUE
    /\ reconnectAttempts' = 0
    /\ failedAttempts' = 0
    /\ scheduledReconnects' = 0
    /\ lastCall' = NoCall
    /\ UNCHANGED <<tradeVars, policyVars, hostVars, listenerVars, builderVars, observerVars, role,
                   autoReconnect,
                   webSocketClient, closeCode, pendingConnects, inSchedule,
                   reconnectTasks, hubReachable>>

\* the connection attempt of client c fails: onError(ex) runs, onClose follows
ClientOnError(c) ==
    /\ role = "connector"
    /\ clientState[c] = "connecting"
    /\ ~hubReachable
    /\ isConnected' = FALSE
    /\ clientState' = [clientState EXCEPT ![c] = "closing"]
    /\ \E code \in FailureCodes : closeCode' = [closeCode EXCEPT ![c] = code]
    /\ failedAttempts' = CountUpTo(failedAttempts, maxReconnectAttempts)
    /\ lastCall' = NoCall
    /\ UNCHANGED <<tradeVars, policyVars, hostVars, listenerVars, builderVars, observerVars, role,
                   autoReconnect,
                   reconnectAttempts, webSocketClient, pendingConnects, inSchedule,
                   reconnectTasks, hubReachable, scheduledReconnects>>

\* the open connection of client c ends: lost, or closed by the hub
ConnectionEnds(c) ==
    /\ role = "connector"
    /\ clientState[c] = "open"
    /\ clientState' = [clientState EXCEPT ![c] = "closing"]
    /\ \E code \in EndCodes :
           closeCode' = [closeCode EXCEPT ![c] = code]
    /\ lastCall' = NoCall
    /\ UNCHANGED <<tradeVars, policyVars, hostVars, listenerVars, builderVars, observerVars, role,
                   autoReconnect,
                   isConnected, reconnectAttempts, webSocketClient, pendingConnects,
                   inSchedule, reconnectTasks, hubReachable, failedAttempts,
                   scheduledReconnects>>

\* onClose: if (code != 1000 && reconnectAttempts < maxReconnectAttempts)
shouldReconnect(code) ==
    code # NormalClosure /\ reconnectAttempts < maxReconnectAttempts

\* onClose(code, reason, remote) of client c, up to the guard of scheduleReconnect
ClientOnClose(c) ==
    /\ role = "connector"
    /\ clientState[c] = "closing"
    /\ inSchedule < MaxPending
    /\ clientState' = Collect([clientState EXCEPT ![c] = "closed"], webSocketClient)
    /\ closeCode' = [closeCode EXCEPT ![c] = 0]
    /\ isConnected' = FALSE
    /\ inSchedule' = IF shouldReconnect(closeCode[c])
                     THEN inSchedule + 1 ELSE inSchedule
    /\ locallyClosed' = locallyClosed \ {c}
    /\ lastCall' = Call("onClose", closeCode[c], inSchedule' > inSchedule,
                        c \in locallyClosed, FALSE, FALSE)
    /\ UNCHANGED <<tradeVars, policyVars, hostVars, listenerVars, builderVars, disconnected, role,
                   autoReconnect,
                   reconnectAttempts, webSocketClient, pendingConnects,
                   reconnectTasks, hubReachable, failedAttempts, scheduledReconnects>>

\* scheduleReconnect() past its guard: reconnectAttempts++ and runTaskLaterAsynchronously
ScheduleReconnect ==
    /\ role = "connector"
    /\ inSchedule > 0
    /\ reconnectTasks < MaxPending
    /\ inSchedule' = inSchedule - 1
    /\ reconnectAttempts' = reconnectAttempts + 1
    /\ scheduledReconnects' = CountUpTo(scheduledReconnects, maxReconnectAttempts)
    /\ reconnectTasks' = reconnectTasks + 1
    /\ lastCall' = NoCall
    /\ UNCHANGED <<tradeVars, policyVars, hostVars, listenerVars, builderVars, observerVars, role,
                   autoReconnect,
                   isConnected, webSocketClient, clientState, closeCode, pendingConnects,
                   hubReachable, failedAttempts>>

\* a delayed reconnect task runs: if (!isConnected) connect()
ReconnectTaskRuns ==
    /\ role = "connector"
    /\ reconnectTasks > 0
    /\ reconnectTasks' = reconnectTasks - 1
    /\ IF ~isConnected
       THEN connect(clientState)
       ELSE UNCHANGED <<webSocketClient, clientState, pendingConnects>>
    /\ lastCall' = NoCall
    /\ UNCHANGED <<tradeVars, policyVars, hostVars, listenerVars, builderVars, observerVars, role,
                   autoReconnect,
                   isConnected, reconnectAttempts, closeCode, inSchedule, hubReachable,
                   failedAttempts, scheduledReconnects>>

\* what webSocketClient.close() leaves of the clients: an open client starts closing
\* with the normal-closure code; a connecting client is either left alone (its
\* socket is not set up yet) or ends without having connected; otherwise nothing
AfterLocalClose ==
    IF webSocketClient = 0 THEN {[state |-> clientState, code |-> closeCode]}
    ELSE IF clientState[webSocketClient] = "open"
    THEN {[state |-> [clientState EXCEPT ![webSocketClient] = "closing"],
           code  |-> [closeCode EXCEPT ![webSocketClient] = NormalClosure]]}
    ELSE IF clientState[webSocketClient] = "connecting"
    THEN {[state |-> clientState, code |-> closeCode]} \cup
         {[state |-> [clientState EXCEPT ![webSocketClient] = "closing"],
           code  |-> [closeCode EXCEPT ![webSocketClient] = code]] : code \in FailureCodes}
    ELSE {[state |-> clientState, code |-> closeCode]}

\* a variant of forceReconnect() that keeps the count of attempts
forceReconnectKeepAttempts ==
    /\ \E after \in AfterLocalClose :
         /\ closeCode' = after.code
         /\ connect(after.state)
    /\ reconnectAttempts' = reconnectAttempts
    /\ scheduledReconnects' = 0
    /\ disconnected' = FALSE
    /\ lastCall' = Call("forceReconnect", 0, FALSE, FALSE, FALSE, FALSE)

\* forceReconnect(): closes the client, resets reconnectAttempts, calls connect()
forceReconnect ==
    /\ \E after \in AfterLocalClose :
         /\ closeCode' = after.code
         /\ connect(after.state)
    /\ reconnectAttempts' = 0
    /\ scheduledReconnects' = 0
    /\ disconnected' = FALSE
    /\ lastCall' = Call("forceReconnect", 0, FALSE, FALSE, FALSE, FALSE)

\* a variant of the connection check that gives up with the retries
HealthCheckWhileRetriesLeft ==
    /\ role = "connector"
    /\ ~isConnected
    /\ autoReconnect
    /\ reconnectAttempts < maxReconnectAttempts
    /\ forceReconnect
    /\ UNCHANGED <<tradeVars, policyVars, hostVars, listenerVars, builderVars, locallyClosed, role,
                   autoReconnect, isConnected, inSchedule, reconnectTasks, hubReachable,
                   failedAttempts>>

\* the periodic connection check of initializeWebSocket, when its condition holds
HealthCheck ==
    /\ role = "connector"
    /\ ~isConnected
    /\ autoReconnect
    /\ forceReconnect
    /\ UNCHANGED <<tradeVars, policyVars, hostVars, listenerVars, builderVars, locallyClosed, role,
                   autoReconnect, isConnected, inSchedule, reconnectTasks, hubReachable,
                   failedAttempts>>

\* the hub becomes unreachable
HubGoesDown ==
    /\ role = "connector"
    /\ hubReachable
    /\ hubReachable' = FALSE
    /\ lastCall' = NoCall
    /\ UNCHANGED <<tradeVars, policyVars, hostVars, listenerVars, builderVars, observerVars, role,
                   autoReconnect,
                   isConnected, reconnectAttempts, webSocketClient, clientState,
                   closeCode, pendingConnects, inSchedule, reconnectTasks,
                   failedAttempts, scheduledReconnects>>

\* messages the hub sends
HubMessages == {say \o <<" ","x">>, <<"/">> \o give \o <<" ","x">>, stop, <<" ">>}

\* a variant of onMessage that runs the handler in the socket callback
ClientOnMessageInline(c, message) ==
    /\ role = "connector"
    /\ clientState[c] = "open"
    /\ framesReceived < MaxHubFrames
    /\ framesReceived' = framesReceived + 1
    /\ ExecuteCommandMessage(message, "socket")
    /\ UNCHANGED <<tradeVars, allowedCommands, blockedCommands, mainQueue, built,
                   connectorVars, builderVars, sockState, connectedClients,
                   clientIdCounter, registryVars, worldSpawn, shutdownVars, unanswered, handled,
                   sent, scheduled>>

\* onMessage(message) of client c: hands the message handler to the update thread
ClientOnMessage(c, message) ==
    /\ role = "connector"
    /\ clientState[c] = "open"
    /\ framesReceived < MaxHubFrames
    /\ framesReceived' = framesReceived + 1
    /\ mainQueue' = Append(mainQueue, CommandTask(message))
    /\ UNCHANGED <<tradeVars, policyVars, mutations, built, connectorVars, builderVars,
                   sockState, connectedClients, clientIdCounter, registryVars,
                   worldSpawn, shutdownVars, unanswered, handled,
                   sent, scheduled>>


(***************************************************************************)
(* Calls of WebSocketManager by the plugin and by other classes            *)
(***************************************************************************)
\* disconnect(): if (webSocketClient != null && isConnected) the client is
\* closed with code 1000 and isConnected is cleared; otherwise nothing
Disconnect ==
    /\ role = "connector"
    /\ IF webSocketClient # 0 /\ isConnected
       THEN /\ \E after \in AfterLocalClose :
                 /\ clientState' = after.state
                 /\ closeCode' = after.code
                 /\ locallyClosed' = IF after.state # clientState
                                     THEN locallyClosed \cup {webSocketClient}
                                     ELSE locallyClosed
            /\ isConnected' = FALSE
       ELSE UNCHANGED <<clientState, closeCode, locallyClosed, isConnected>>
    /\ disconnected' = TRUE
    /\ lastCall' = Call("disconnect", 0, FALSE, FALSE, FALSE, FALSE)
    /\ UNCHANGED <<tradeVars, policyVars, hostVars, listenerVars, builderVars, role, autoReconnect,
                   reconnectAttempts, webSocketClient, pendingConnects, inSchedule,
                   reconnectTasks, hubReachable, failedAttempts, scheduledReconnects>>

\* a variant of sendMessage that does not look at isConnected
sendMessageUnguarded ==
    IF webSocketClient # 0
    THEN IF clientState[webSocketClient] = "open"
         THEN [delivered |-> TRUE, thrown |-> FALSE]
         ELSE [delivered |-> FALSE, thrown |-> TRUE]
    ELSE [delivered |-> FALSE, thrown |-> FALSE]

\* sendMessage(message): if (webSocketClient != null && isConnected) the frame
\* is handed to webSocketClient.send, which raises
\* WebsocketNotConnectedException unless the client is open; otherwise only a
\* warning is logged
sendMessage ==
    IF webSocketClient # 0 /\ isConnected
    THEN IF clientState[webSocketClient] = "open"
         THEN [delivered |-> TRUE, thrown |-> FALSE]
         ELSE [delivered |-> FALSE, thrown |-> TRUE]
    ELSE [delivered |-> FALSE, thrown |-> FALSE]

\* some class calls sendMessage; WebSocketManager keeps no frame
SendMessage ==
    /\ role = "connector"
    /\ lastCall' = Call("sendMessage", 0, FALSE, FALSE, sendMessage.delivered,
                        sendMessage.thrown)
    /\ UNCHANGED <<tradeVars, policyVars, hostVars, listenerVars, builderVars, observerVars, role,
                   autoReconnect, isConnected, reconnectAttempts, webSocketClient,
                   clientState, closeCode, pendingConnects, inSchedule, reconnectTasks,
                   hubReachable, failedAttempts, scheduledReconnects>>
(***************************************************************************)
(* Direct calls of the command executor                                    *)
(***************************************************************************)
\* a caller invokes CommandExecutor.executeCommand(command)
CallExecuteCommand ==
    /\ role = "executor"
    /\ lastExec = NoExec
    /\ \E command \in CommandInputs, hostOutcome \in HostOutcomes :
         LET r == executeCommand(command, hostOutcome) IN
         lastExec' = [called |-> TRUE, command |-> command, ret |-> r.ret,
                      dispatch |-> r.dispatch, thrown |-> r.thrown]
    /\ UNCHANGED <<tradeVars, allowedCommands, blockedCommands, hostVars, listenerVars, connectorVars,
                   builderVars>>

\* the caller has consumed the result
ReturnFromExecute ==
    /\ role = "executor"
    /\ lastExec # NoExec
    /\ lastExec' = NoExec
    /\ UNCHANGED <<tradeVars, allowedCommands, blockedCommands, hostVars, listenerVars, connectorVars,
                   builderVars>>



(***************************************************************************)
(* Direct calls of the builder entry points                                *)
(***************************************************************************)
CoordBound == 2

SizeSlack == 4

\* corners and centers: around the origin, and at the ends of the int range
Coords == ((-CoordBound)..CoordBound) \cup {MinInt32, MaxInt32 - 50, MaxInt32}

SizeInputs == (MinSize - SizeSlack)..(MaxSize + SizeSlack)

BuildCall(fn, x, z, size, b) ==
    [called |-> TRUE, fn |-> fn, x |-> x, z |-> z, size |-> size,
     result |-> b.result, scheduled |-> Len(b.tasks), thrown |-> b.thrown]

CallBuildTradingFloor ==
    /\ role = "builder"
    /\ ~lastBuild.called
    /\ \E startX \in Coords, startZ \in Coords, size \in SizeInputs :
         LET b == buildTradingFloor("world", startX, startZ, size) IN
         /\ lastBuild' = BuildCall("buildTradingFloor", startX, startZ, size, b)
         /\ mainQueue' = mainQueue \o b.tasks
    /\ UNCHANGED <<tradeVars, policyVars, listenerVars, connectorVars, mutations, built>>

CallBuildTradingFloorCentered ==
    /\ role = "builder"
    /\ ~lastBuild.called
    /\ \E centerX \in Coords, centerZ \in Coords, size \in SizeInputs :
         LET b == buildTradingFloorCentered("world", centerX, centerZ, size) IN
         /\ lastBuild' = BuildCall("buildTradingFloorCentered", centerX, centerZ, size, b)
         /\ mainQueue' = mainQueue \o b.tasks
    /\ UNCHANGED <<tradeVars, policyVars, listenerVars, connectorVars, mutations, built>>

(***************************************************************************)
(* Specifications                                                          *)
(***************************************************************************)
tp == <<"t","p">>
ban == <<"b","a","n">>
kick == <<"k","i","c","k">>

SpawnLocations == {[x |-> -7, z |-> 12]}

\* the state shared by every deployment, before anything has run
InitIdle ==
    /\ lastExec = NoExec
    /\ mainQueue = <<>>
    /\ mutations = {}
    /\ built = {}
    /\ sockState = [c \in Conns |-> "new"]
    /\ connectedClients = [c \in Conns |-> 0]
    /\ clientIdCounter = 1
    /\ opening = [c \in Conns |-> 0]
    /\ allocated = <<>>
    /\ departures = [n \in Conns |-> 0]
    /\ shutdownPc = "idle"
    /\ targets = {}
    /\ noticed = {}
    /\ unanswered = [c \in Conns |-> <<>>]
    /\ framesReceived = 0
    /\ handled = NoActivity
    /\ sent = <<>>
    /\ scheduled = <<>>
    /\ isConnected = FALSE
    /\ reconnectAttempts = 0
    /\ closeCode = [c \in Clients |-> 0]
    /\ inSchedule = 0
    /\ reconnectTasks = 0
    /\ failedAttempts = 0
    /\ scheduledReconnects = 0
    /\ disconnected = FALSE
    /\ locallyClosed = {}
    /\ lastCall = NoCall
    /\ lastBuild = NoBuild
    /\ tradeQueue = <<>>
    /\ isProcessingTrades = FALSE
    /\ currentSimulation = 0
    /\ simulations = 0
    /\ tradeCounter = 0
    /\ inFlight = 0
    /\ handedOver = <<>>
    /\ cleared = {}
    /\ tradeStep = NoTradeStep

\* the state after onEnable and the onStart callback
InitCommon ==
    /\ InitIdle
    /\ serverRunning = TRUE
    /\ accepting = TRUE
    /\ serverThread = "running"

NoConnector ==
    /\ autoReconnect = TRUE
    /\ webSocketClient = 0
    /\ clientState = [c \in Clients |-> "none"]
    /\ pendingConnects = 0
    /\ hubReachable = FALSE

\* the command executor called directly, under any configuration
InitPolicy ==
    /\ InitCommon
    /\ NoConnector
    /\ role = "executor"
    /\ worldSpawn \in {[x |-> 0, z |-> 0]}
    /\ allowedCommands \in SUBSET ConfigEntries
    /\ blockedCommands \in SUBSET ConfigEntries

\* the builder called directly
InitBuilder ==
    /\ InitCommon
    /\ NoConnector
    /\ role = "builder"
    /\ worldSpawn \in {[x |-> 0, z |-> 0]}
    /\ allowedCommands = {}
    /\ blockedCommands = {}

\* the plugin with the WebSocket server, after onEnable
InitListener ==
    /\ InitCommon
    /\ NoConnector
    /\ role = "listener"
    /\ worldSpawn \in SpawnLocations
    /\ allowedCommands = {}
    /\ blockedCommands = {}

\* the plugin with the WebSocket client, after onEnable: connect() has been called
InitConnector ==
    /\ InitCommon
    /\ role = "connector"
    /\ worldSpawn \in {[x |-> 0, z |-> 0]}
    /\ allowedCommands = {say, give, tp}
    /\ blockedCommands = {stop, ban, kick}
    /\ autoReconnect \in BOOLEAN
    /\ webSocketClient = 1
    /\ clientState = [c \in Clients |-> IF c = 1 THEN "created" ELSE "none"]
    /\ pendingConnects = 1
    /\ hubReachable \in BOOLEAN

NextPolicy == CallExecuteCommand \/ ReturnFromExecute

NextBuilder == CallBuildTradingFloor \/ CallBuildTradingFloorCentered \/ RunBuild

NextListener ==
    \/ \E c \in Conns : Accept(c)
    \/ \E c \in Conns : OnOpen(c)
    \/ \E c \in Conns : SocketClosed(c)
    \/ \E c \in Conns : OnClose(c)
    \/ \E c \in Conns, message \in ListenerFrames : OnMessage(c, message)
    \/ RunHandleMessage
    \/ RunBuild

\* the connector while the hub accepts connections
NextHubUp ==
    \/ AsyncConnectRuns
    \/ \E c \in Clients : ClientOnOpen(c)
    \/ \E c \in Clients : ConnectionEnds(c)
    \/ \E c \in Clients : ClientOnClose(c)
    \/ ScheduleReconnect
    \/ ReconnectTaskRuns
    \/ HealthCheck

\* the hub stops accepting connections, and connection attempts fail
NextHubDown ==
    \/ HubGoesDown
    \/ \E c \in Clients : ClientOnError(c)

NextConnector == NextHubUp \/ NextHubDown

\* the hub sends messages over an open connection
NextHubTraffic ==
    \/ \E c \in Clients, message \in HubMessages : ClientOnMessage(c, message)
    \/ RunCommand

SpecPolicy == InitPolicy /\ [][NextPolicy]_vars

SpecBuilder == InitBuilder /\ [][NextBuilder]_vars

SpecListener == InitListener /\ [][NextListener]_vars

SpecConnector == InitConnector /\ [][NextConnector]_vars

\* either deployment of the plugin with its peers sending messages; the hub of
\* the connector stays reachable
Init == InitListener \/ (InitConnector /\ hubReachable)

Next == NextListener \/ NextHubUp \/ NextHubTraffic

Spec == Init /\ [][Next]_vars

(***************************************************************************)
(* The listener under the frames of the message protocol                   *)
(***************************************************************************)
\* {"type":"broadcast"} without a message, and with one
BroadcastRequests ==
    {<<TypeMember("broadcast")>>,
     <<TypeMember("broadcast"), <<"message", Str("hi")>>>>}

\* requests answered to the sender alone
QueryRequests == {<<TypeMember("PING")>>, <<TypeMember("get_server_info")>>}

\* a type the dispatcher does not know, and an object without a type
UnknownTypeRequests == {<<TypeMember("dance")>>, <<<<"size", Num(5)>>>>}

StructuredRequests == BroadcastRequests \cup QueryRequests \cup UnknownTypeRequests

PlainTextFrames == {<<Word("hello")>>}

ProtocolFrames ==
    {stringify(m) : m \in StructuredRequests} \cup {ClosedTruncatedFrame}
        \cup PlainTextFrames

NextDispatch ==
    \/ \E c \in Conns : Accept(c)
    \/ \E c \in Conns : OnOpen(c)
    \/ \E c \in Conns : SocketClosed(c)
    \/ \E c \in Conns : OnClose(c)
    \/ \E c \in Conns, message \in ProtocolFrames : OnMessage(c, message)
    \/ RunHandleMessage

SpecDispatch == InitListener /\ [][NextDispatch]_vars

(***************************************************************************)
(* The connector with few clients alive at a time                          *)
(***************************************************************************)
FewClients == 2

FewPending == 1

\* at most FewClients client objects alive, and at most FewPending lambdas,
\* threads in scheduleReconnect and delayed tasks at a time
Within ==
    /\ \A c \in Clients : c > FewClients => clientState[c] = "none"
    /\ pendingConnects <= FewPending
    /\ inSchedule <= FewPending
    /\ reconnectTasks <= FewPending

\* a step of the connector that stays within these limits
StepWithin(A) == A /\ Within'

NextWithin ==
    \/ StepWithin(HealthCheck)
    \/ StepWithin(ReconnectTaskRuns)
    \/ StepWithin(ScheduleReconnect)
    \/ StepWithin(AsyncConnectRuns)
    \/ \E c \in Clients : StepWithin(ClientOnError(c))
    \/ \E c \in Clients : StepWithin(ClientOnClose(c))
    \/ \E c \in Clients : StepWithin(ClientOnOpen(c))
    \/ \E c \in Clients : StepWithin(ConnectionEnds(c))
    \/ StepWithin(HubGoesDown)

(***************************************************************************)
(* The connector with the calls other classes make                         *)
(***************************************************************************)
NextManual == StepWithin(Disconnect) \/ StepWithin(SendMessage)

SpecManual == InitConnector /\ [][NextWithin \/ NextManual]_vars

(***************************************************************************)
(* The connector with its timers and callbacks scheduled fairly            *)
(***************************************************************************)
\* auto-reconnect is enabled (config websocket.auto-reconnect, default true)
InitHealth == InitConnector /\ autoReconnect

\* the scheduler runs every task that is due, the common pool runs every
\* lambda, and the socket threads deliver every callback
FairTimers ==
    /\ WF_vars(StepWithin(HealthCheck))
    /\ WF_vars(StepWithin(ReconnectTaskRuns))
    /\ WF_vars(StepWithin(ScheduleReconnect))
    /\ WF_vars(StepWithin(AsyncConnectRuns))
    /\ \A c \in Clients : WF_vars(StepWithin(ClientOnError(c)))
    /\ \A c \in Clients : WF_vars(StepWithin(ClientOnClose(c)))
    /\ \A c \in Clients : WF_vars(StepWithin(ClientOnOpen(c)))

SpecHealth == InitHealth /\ [][NextWithin]_vars /\ FairTimers

\* the session registry under concurrent callbacks: connections are accepted,
\* their onOpen runs statement by statement, sockets close, onClose runs
NextRegistry ==
    \/ \E c \in Conns : Accept(c)
    \/ \E c \in Conns : OnOpenAllocate(c)
    \/ \E c \in Conns : OnOpenRegister(c)
    \/ \E c \in Conns : SocketClosedDuringOpen(c)
    \/ \E c \in Conns : SocketClosed(c)
    \/ \E c \in Conns : OnClose(c)

SpecRegistry == InitListener /\ [][NextRegistry]_vars

\* the registry with onOpen statement by statement
NextWelcome ==
    \/ NextRegistry
    \/ \E c \in Conns : OnOpenPut(c)

SpecWelcome == InitListener /\ [][NextWelcome]_vars

\* the registry when a close event can be delivered again
NextSessions ==
    \/ NextRegistry
    \/ \E c \in Conns : OnCloseAgain(c)

SpecSessions == InitListener /\ [][NextSessions]_vars

\* the listener being shut down while connections open and close
NextShutdown ==
    \/ \E c \in Conns : Accept(c)
    \/ \E c \in Conns : OnOpen(c)
    \/ \E c \in Conns : SocketClosed(c)
    \/ \E c \in Conns : OnClose(c)
    \/ ShutdownCheck
    \/ ShutdownSend
    \/ ShutdownCloseAll
    \/ ShutdownStop

SpecShutdown == InitListener /\ [][NextShutdown]_vars

\* entries of allowed-commands / blocked-commands in the casings a server owner
\* may write them
CasedEntries == {say, capitalize(say), toUpperCase(give)}

\* the executor constructed from a configuration with such entries
InitCasedPolicy ==
    /\ InitCommon
    /\ NoConnector
    /\ role = "executor"
    /\ worldSpawn \in {[x |-> 0, z |-> 0]}
    /\ allowedCommands \in SUBSET CasedEntries
    /\ blockedCommands \in SUBSET CasedEntries

SpecCasedPolicy == InitCasedPolicy /\ [][NextPolicy]_vars

\* the plugin before onEnable
InitLifecycle ==
    /\ InitIdle
    /\ NoConnector
    /\ role = "listener"
    /\ worldSpawn \in SpawnLocations
    /\ allowedCommands = {}
    /\ blockedCommands = {}
    /\ serverRunning = FALSE
    /\ accepting = FALSE
    /\ serverThread = "none"

\* the listener from onEnable to the end of onDisable
NextLifecycle ==
    \/ \E webSocketEnabled \in BOOLEAN : Enable(webSocketEnabled)
    \/ OnStart
    \/ BindFails
    \/ ThreadEndsUnstarted
    \/ NextShutdown

SpecLifecycle == InitLifecycle /\ [][NextLifecycle]_vars

(***************************************************************************)
(* Inbound frames in both roles                                            *)
(***************************************************************************)
\* commands as a hub sends them in plain text
PlainCommands == {say \o <<" ","x">>, <<" ","/">> \o give \o <<" ","x"," ">>}

\* the text {"type":"ping"}, character by character
PingText ==
    <<"{","\"","t","y","p","e","\"",":","\"","p","i","n","g","\"","}">>

\* the text {"type":"broadcast","message":"hi"}
BroadcastText ==
    <<"{","\"","t","y","p","e","\"",":","\"","b","r","o","a","d","c","a","s","t","\"",",",
      "\"","m","e","s","s","a","g","e","\"",":","\"","h","i","\"","}">>

\* a frame in braces that is not JSON
MalformedText == <<"{","n","o","t"," ","j","s","o","n","}">>

StructuredTexts == {PingText, BroadcastText, MalformedText}

\* n times the letter a
Filler(n) == [i \in 1..n |-> "a"]

\* texts that processMessage turns into the empty text or that keep one of
\* "&&", "||", ";" after trimming, stripping and truncation
RejectedTexts ==
    {<<>>, <<" "," ">>, <<"&","a">>, <<" ","&","c","&","f"," ">>,
     say \o <<" ","a","&","&","b">>, say \o <<" ","|","|">>, say \o <<";">> \o stop,
     <<"&","&","a","&">>, <<";">> \o Filler(maxCommandLength)}

\* texts with such a sequence only beyond max-command-length, or with a single
\* "&" or "|"
AcceptedTexts ==
    {say \o <<" ">> \o Filler(maxCommandLength - 4) \o <<";">> \o stop,
     say \o <<" ","a","&","b","|","c">>}

InboundTexts == PlainCommands \cup StructuredTexts \cup RejectedTexts \cup AcceptedTexts

\* the connector connects and receives frames from the hub
NextInbound ==
    \/ AsyncConnectRuns
    \/ \E c \in Clients : ClientOnOpen(c)
    \/ \E c \in Clients : ConnectionEnds(c)
    \/ \E c \in Clients : ClientOnClose(c)
    \/ \E c \in Clients, message \in InboundTexts : ClientOnMessage(c, message)
    \/ RunCommand

\* the connector with its hub reachable
InitHub == InitConnector /\ hubReachable

SpecHub == InitHub /\ [][NextInbound]_vars

InitInbound == InitListener \/ InitHub

\* either role under the frames of its peers
SpecInbound == InitInbound /\ [][NextDispatch \/ NextInbound]_vars
\* ---------------------------------------------------------------------------
\* The handlers of the mineflayer client. Node runs them one at a time; an
\* async function gives way to other handlers only at an await whose result is
\* still pending.

\* handleTradeCommand: the trade is pushed at the end of the queue; a message
\* without a trades array throws before the push
HandleTradeCommand(wellFormed) ==
    /\ role = "mineflayer"
    /\ tradeCounter < MaxTrades
    /\ IF wellFormed
       THEN /\ tradeCounter' = tradeCounter + 1
            /\ tradeQueue' = Append(tradeQueue, tradeCounter + 1)
       ELSE UNCHANGED <<tradeCounter, tradeQueue>>
    /\ tradeStep' = TradeStep("handleTradeCommand", 0, ~wellFormed)
    /\ UNCHANGED <<isProcessingTrades, currentSimulation, simulations, inFlight,
                   handedOver, cleared>>
    /\ UNCHANGED <<policyVars, hostVars, listenerVars, connectorVars, builderVars>>

\* handleStartSimulation: an existing simulation is stopped with
\* stopCurrentSimulation, which clears the queue; then the new simulation is
\* created, unless the configuration makes the handler throw before that
HandleStartSimulation(created) ==
    /\ role = "mineflayer"
    /\ simulations < MaxSimulations
    /\ IF currentSimulation # 0
       THEN /\ tradeQueue' = <<>>
            /\ cleared' = cleared \cup Range(tradeQueue)
       ELSE UNCHANGED <<tradeQueue, cleared>>
    /\ IF created
       THEN /\ simulations' = simulations + 1
            /\ currentSimulation' = simulations + 1
       ELSE /\ simulations' = simulations
            /\ currentSimulation' = 0
    /\ tradeStep' = TradeStep("handleStartSimulation", 0, FALSE)
    /\ UNCHANGED <<isProcessingTrades, tradeCounter, inFlight, handedOver>>
    /\ UNCHANGED <<policyVars, hostVars, listenerVars, connectorVars, builderVars>>

\* handleStopSimulation: stopCurrentSimulation when there is a simulation,
\* which clears the queue (clearTradeQueue) and sets currentSimulation to null
HandleStopSimulation ==
    /\ role = "mineflayer"
    /\ IF currentSimulation # 0
       THEN /\ tradeQueue' = <<>>
            /\ cleared' = cleared \cup Range(tradeQueue)
            /\ currentSimulation' = 0
       ELSE UNCHANGED <<tradeQueue, cleared, currentSimulation>>
    /\ tradeStep' = TradeStep("handleStopSimulation", 0, FALSE)
    /\ UNCHANGED <<isProcessingTrades, simulations, tradeCounter, inFlight, handedOver>>
    /\ UNCHANGED <<policyVars, hostVars, listenerVars, connectorVars, builderVars>>

\* a variant of processTradeQueue without the isProcessingTrades test
ProcessTradeQueueUnguarded(outcome) ==
    /\ role = "mineflayer"
    /\ IF currentSimulation = 0 \/ Len(tradeQueue) = 0
       THEN /\ tradeStep' = TradeStep("processTradeQueue", 0, FALSE)
            /\ UNCHANGED <<tradeQueue, isProcessingTrades, inFlight, handedOver>>
       ELSE LET trades == pop(tradeQueue) IN
            /\ tradeQueue' = trades.rest
            /\ handedOver' = Append(handedOver, trades.value)
            /\ isProcessingTrades' = (outcome = "pending")
            /\ inFlight' = IF outcome = "pending" THEN trades.value ELSE 0
            /\ tradeStep' = TradeStep("processTradeQueue", trades.value, outcome = "throws")
    /\ UNCHANGED <<currentSimulation, simulations, tradeCounter, cleared>>
    /\ UNCHANGED <<policyVars, hostVars, listenerVars, connectorVars, builderVars>>

\* processTradeQueue, called by the interval timer of startQueueProcessor. It
\* returns at once while a batch is being processed, without a simulation or
\* with an empty queue. Otherwise it sets isProcessingTrades, pops a trade and
\* hands its items to trade_timestep, which throws, or returns a value that is
\* settled already (the finally block runs before any other handler), or
\* returns a promise that is still pending (the invocation waits at its await).
ProcessTradeQueue(outcome) ==
    /\ role = "mineflayer"
    /\ IF isProcessingTrades \/ currentSimulation = 0 \/ Len(tradeQueue) = 0
       THEN /\ tradeStep' = TradeStep("processTradeQueue", 0, FALSE)
            /\ UNCHANGED <<tradeQueue, isProcessingTrades, inFlight, handedOver>>
       ELSE LET trades == pop(tradeQueue) IN
            /\ tradeQueue' = trades.rest
            /\ handedOver' = Append(handedOver, trades.value)
            /\ isProcessingTrades' = (outcome = "pending")
            /\ inFlight' = IF outcome = "pending" THEN trades.value ELSE 0
            /\ tradeStep' = TradeStep("processTradeQueue", trades.value, outcome = "throws")
    /\ UNCHANGED <<currentSimulation, simulations, tradeCounter, cleared>>
    /\ UNCHANGED <<policyVars, hostVars, listenerVars, connectorVars, builderVars>>

\* the promise that processTradeQueue awaits settles: the catch block runs when
\* it was rejected, and the finally block resets isProcessingTrades
ProcessingSettles(rejected) ==
    /\ role = "mineflayer"
    /\ inFlight # 0
    /\ isProcessingTrades' = FALSE
    /\ inFlight' = 0
    /\ tradeStep' = TradeStep("settled", 0, rejected)
    /\ UNCHANGED <<tradeQueue, currentSimulation, simulations, tradeCounter, handedOver,
                   cleared>>
    /\ UNCHANGED <<policyVars, hostVars, listenerVars, connectorVars, builderVars>>

TimestepOutcomes == {"settled", "pending", "throws"}

\* the client after its constructor: no simulation, an empty queue, the
\* interval timer started
InitMineflayer ==
    /\ InitIdle
    /\ NoConnector
    /\ role = "mineflayer"
    /\ worldSpawn \in {[x |-> 0, z |-> 0]}
    /\ allowedCommands = {}
    /\ blockedCommands = {}
    /\ serverRunning = FALSE
    /\ accepting = FALSE
    /\ serverThread = "none"

NextMineflayer ==
    \/ \E wellFormed \in BOOLEAN : HandleTradeCommand(wellFormed)
    \/ \E created \in BOOLEAN : HandleStartSimulation(created)
    \/ HandleStopSimulation
    \/ \E outcome \in TimestepOutcomes : ProcessTradeQueue(outcome)
    \/ \E rejected \in BOOLEAN : ProcessingSettles(rejected)

SpecMineflayer == InitMineflayer /\ [][NextMineflayer]_vars
(***************************************************************************)
(* Properties of the command executor                                      *)
(***************************************************************************)
\* the command name as the policy sees it: one leading slash removed, the
\* characters before the first space, lower-cased
NameOfCommand(command) ==
    LET c == IF command # <<>> /\ command[1] = "/"
             THEN SubSeq(command, 2, Len(command)) ELSE command
        n == IF \E i \in 1..Len(c) : c[i] = " "
             THEN (CHOOSE i \in 1..Len(c) : c[i] = " " /\ \A k \in 1..(i-1) : c[k] # " ") - 1
             ELSE Len(c)
    IN  [i \in 1..n |-> ToLowerChar(c[i])]

\* C1: whatever the allowed-commands and blocked-commands lists hold, a command
\* whose name is in the fixed dangerous set makes executeCommand return false
\* and nothing is handed to the host's dispatchCommand.
C1_DangerousNeverDispatched ==
    (lastExec.called /\ NameOfCommand(lastExec.command) \in dangerousCommands)
        => (lastExec.ret = FALSE /\ lastExec.dispatch = NoDispatch)

\* a dangerous command was submitted while the allow list names it and the
\* block list does not
C1_Witness ==
    /\ lastExec.called
    /\ NameOfCommand(lastExec.command) \in dangerousCommands
    /\ NameOfCommand(lastExec.command) \in allowedCommands
    /\ NameOfCommand(lastExec.command) \notin blockedCommands
    /\ lastExec.ret = FALSE


\* the name passes the three lists: not on the block list, not dangerous, and
\* on the allow list unless that list is empty
Permitted(name) ==
    /\ name \notin blockedCommands
    /\ name \notin dangerousCommands
    /\ allowedCommands = {} \/ name \in allowedCommands

\* C13: executeCommand hands a command to the host only if its name is not on
\* the block list, not in the dangerous set, and (the allow list is empty or
\* holds the name); a command rejected by these tests returns false and
\* nothing is dispatched.
C13_DispatchOnlyIfPermitted ==
    lastExec.called =>
        /\ lastExec.dispatch # NoDispatch => Permitted(NameOfCommand(lastExec.command))
        /\ ~Permitted(NameOfCommand(lastExec.command))
               => (lastExec.ret = FALSE /\ lastExec.dispatch = NoDispatch)

\* a harmless command that is not on the block list was rejected because the
\* non-empty allow list does not hold its name
C13_Witness ==
    /\ lastExec.called
    /\ NameOfCommand(lastExec.command) = give
    /\ allowedCommands # {}
    /\ give \notin allowedCommands
    /\ give \notin blockedCommands
    /\ lastExec.ret = FALSE
    /\ lastExec.dispatch = NoDispatch
(***************************************************************************)
(* Properties of threading                                                 *)
(***************************************************************************)
\* C2: every host command dispatch and every block write of the builder is
\* executed by the host's update thread, never by a socket callback, the
\* reconnect timer task or the health-check task.
C2_MutationsOnUpdateThread ==
    \A m \in mutations : m.thread = "main"

\* the connector has dispatched a command received from the hub
C2_Witness ==
    /\ role = "connector"
    /\ [what |-> "dispatchCommand", thread |-> "main"] \in mutations
    /\ lastExec.called
    /\ lastExec.dispatch # NoDispatch

(***************************************************************************)
(* Properties of the reconnect state machine                               *)
(***************************************************************************)
\* C3: with auto-reconnect enabled, once maxReconnectAttempts (5) connection
\* attempts in a row have failed with no successful open in between, no step
\* of the connector issues a further connect().
C3_TerminalAfterMaxFailures ==
    [][(autoReconnect /\ failedAttempts >= maxReconnectAttempts) => ~ConnectIssued]_vars

\* C4: reconnectAttempts stays within 0..maxReconnectAttempts, and never more
\* than maxReconnectAttempts reconnects are scheduled since the last successful
\* open or forceReconnect.
C4_RetryCounterBounded ==
    /\ reconnectAttempts >= 0
    /\ reconnectAttempts <= maxReconnectAttempts
    /\ scheduledReconnects <= maxReconnectAttempts

(***************************************************************************)
(* Properties of the builder                                               *)
(***************************************************************************)
\* C6: buildTradingFloor and buildTradingFloorCentered called with a size
\* below 3 or above 100 fail and schedule no block writes.
C6_BuilderEnforcesSizeBound ==
    (lastBuild.called /\ (lastBuild.size < 3 \/ lastBuild.size > 100))
        => (lastBuild.thrown /\ lastBuild.scheduled = 0 /\ mainQueue = <<>> /\ built = {})

\* whether v lies in lo..(lo + size - 1), the bounds taken as integers
InFootprint(v, lo, size) == lo <= v /\ v - lo < size

\* C7 as stated: for every size in 3..100 and every start corner,
\* buildTradingFloor succeeds and returns that size and a center inside
\* [startX, startX+size-1] x [startZ, startZ+size-1].
C7_CenterInsideFootprint ==
    (lastBuild.called /\ lastBuild.fn = "buildTradingFloor" /\ lastBuild.size \in 3..100)
        => /\ ~lastBuild.thrown
           /\ lastBuild.result.size = lastBuild.size
           /\ InFootprint(lastBuild.result.centerX, lastBuild.x, lastBuild.size)
           /\ InFootprint(lastBuild.result.centerZ, lastBuild.z, lastBuild.size)

\* whether the footprint of a build lies within the range of int on one axis
FootprintFits(lo, size) == lo <= MaxInt32 - (size - 1)

\* C7, amended: for every size in 3..100 and every start corner whose footprint
\* does not pass the largest int on either axis, buildTradingFloor succeeds and
\* returns that size and a center inside the footprint.
C7_CenterInsideFootprintThatFits ==
    (/\ lastBuild.called
     /\ lastBuild.fn = "buildTradingFloor"
     /\ lastBuild.size \in 3..100
     /\ FootprintFits(lastBuild.x, lastBuild.size)
     /\ FootprintFits(lastBuild.z, lastBuild.size))
        => /\ ~lastBuild.thrown
           /\ lastBuild.scheduled = 1
           /\ lastBuild.result.size = lastBuild.size
           /\ InFootprint(lastBuild.result.centerX, lastBuild.x, lastBuild.size)
           /\ InFootprint(lastBuild.result.centerZ, lastBuild.z, lastBuild.size)

\* a build whose footprint ends exactly at the largest int on the x axis and
\* starts at a negative z
C7_Witness ==
    /\ lastBuild.called
    /\ lastBuild.fn = "buildTradingFloor"
    /\ lastBuild.size = 51
    /\ lastBuild.x = MaxInt32 - 50
    /\ lastBuild.z < 0
    /\ lastBuild.result.centerX = MaxInt32 - 25

\* C8: for every size and every requested center, buildTradingFloorCentered
\* returns the centroid buildTradingFloor returns for the corner
\* center - size/2 (int division, int arithmetic).
C8_CenteredEqualsCorner ==
    (lastBuild.called /\ lastBuild.fn = "buildTradingFloorCentered")
        => LET half == IF lastBuild.size >= 0 THEN lastBuild.size \div 2
                       ELSE -((-lastBuild.size) \div 2)
               corner == buildTradingFloor("world", AddInt32(lastBuild.x, -half),
                                           AddInt32(lastBuild.z, -half), lastBuild.size)
           IN  /\ lastBuild.result = corner.result
               /\ lastBuild.result.centerX = lastBuild.x
               /\ lastBuild.result.centerZ = lastBuild.z

\* a centered build of odd size around a center with a negative coordinate
C8_Witness ==
    /\ lastBuild.called
    /\ lastBuild.fn = "buildTradingFloorCentered"
    /\ lastBuild.size = 7
    /\ lastBuild.x = -2
    /\ lastBuild.z = 1
    /\ lastBuild.result.centerX = -2

(***************************************************************************)
(* Properties of the listener's create_trading_floor handling              *)
(***************************************************************************)
\* the request among a set whose text is the given frame
RequestOf(frame, requests) == CHOOSE m \in requests : stringify(m) = frame

IsRequestOf(frame, requests) == \E m \in requests : stringify(m) = frame

\* the size a request asks for
SizeAsked(m) == IF HasMember(m, "size") THEN MemberOf(m, "size") ELSE 10

\* the world a request names
WorldAsked(m) == IF HasMember(m, "world") THEN MemberOf(m, "world") ELSE "world"

\* the update thread has just run the handler of one of the given requests
HandledFor(requests) ==
    /\ handled.kind = "handleMessage"
    /\ IsRequestOf(handled.message, requests)

\* C5: a create_trading_floor request with a size below 3 or above 100, or
\* naming a world that does not exist, gets exactly one error reply to the
\* requester (if it is still connected) with the message for its case; no
\* frame goes to any other session, and no build is scheduled.
C5_InvalidCreateRejected ==
    /\ \A n \in SizeInputs : sizeRejected(n) <=> (n < 3 \/ n > 100)
    /\ HandledFor(BadSizeRequests \cup BadWorldRequests) =>
         LET m == RequestOf(handled.message, BadSizeRequests \cup BadWorldRequests)
             text == IF SizeAsked(m) < 3 \/ SizeAsked(m) > 100
                     THEN <<"Invalid size. Must be between 3 and 100.">>
                     ELSE <<"World not found: ", WorldAsked(m)>>
             reply == [to |-> handled.conn,
                       frame |-> [type |-> "error", message |-> text, timestamp |-> Now]]
         IN  /\ scheduled = <<>>
             /\ \A i \in 1..Len(sent) : sent[i].to = handled.conn
             /\ isOpen(handled.conn) => sent = <<reply>>

\* the request for size 150 of scenario B, from a session that has peers
\* connected, has been answered
C5_Witness ==
    /\ HandledFor(BadSizeRequests)
    /\ SizeAsked(RequestOf(handled.message, BadSizeRequests)) = 150
    /\ isOpen(handled.conn)
    /\ \E c \in Conns : c # handled.conn /\ connectedClients[c] # 0 /\ isOpen(c)
    /\ Len(sent) = 1

\* the sessions other than conn: registered and open
OtherSessions(conn) == {c \in Conns : c # conn /\ connectedClients[c] # 0 /\ isOpen(c)}

\* the frames sent to one connection, in order
SentTo(c) == SelectSeq(sent, LAMBDA s : s.to = c)

C10_TruncatedFrameIsJsonError ==
    (/\ handled.kind = "handleMessage"
     /\ handled.message = TruncatedFrame
     /\ isOpen(handled.conn))
        => /\ Len(sent) = 1
           /\ sent[1].to = handled.conn
           /\ sent[1].frame.type = "error"
           /\ sent[1].frame.message = <<"Invalid JSON format">>


(***************************************************************************)
(* Properties of the listener's dispatch                                   *)
(***************************************************************************)
\* C11: every frame handled for a session that is still open gets exactly one
\* terminal outcome sent to that session: never zero replies, never two.
C11_ExactlyOneOutcome ==
    (handled.kind = "handleMessage" /\ isOpen(handled.conn))
        => Len(SentTo(handled.conn)) = 1

\* frames that are protocol errors: braces around text that is not JSON, an
\* unknown type, no type
ProtocolErrorFrames ==
    {ClosedTruncatedFrame} \cup {stringify(m) : m \in UnknownTypeRequests}

\* the message of the error reply the protocol prescribes for such a frame
ProtocolErrorText(frame) ==
    IF frame = ClosedTruncatedFrame THEN <<"Invalid JSON format">>
    ELSE LET m == RequestOf(frame, UnknownTypeRequests) IN
         <<"Unknown message type: ",
           IF HasMember(m, "type") THEN MemberOf(m, "type") ELSE "">>

\* C12: the step that handles a protocol error (a frame in braces that does not
\* parse, or a parsed frame whose type is missing or unknown) sends frames to
\* the originating session only, and if that session is open exactly the
\* structured error reply of its case ('Invalid JSON format' / 'Unknown
\* message type: <type>'), never an echo and never nothing; it schedules
\* nothing, and it leaves every session's registration and connection state and
\* the frames queued behind it as they were, so later frames are dispatched.
C12_ProtocolErrorsAnswered ==
    [][(/\ handled'.kind = "handleMessage"
        /\ handled'.message \in ProtocolErrorFrames)
       => LET S == handled'.conn
              reply == [to |-> S,
                        frame |-> [type |-> "error",
                                   message |-> ProtocolErrorText(handled'.message),
                                   timestamp |-> Now]]
          IN  /\ \A i \in 1..Len(sent') : sent'[i].to = S
              /\ isOpen(S) => sent' = <<reply>>
              /\ scheduled' = <<>>
              /\ sockState' = sockState
              /\ connectedClients' = connectedClients
              /\ mainQueue # <<>> /\ mainQueue' = Tail(mainQueue)]_vars

\* a frame without a type from an open session with an open peer has been
\* answered, while a later frame of the same session waits in the queue
C12_Witness ==
    /\ handled.kind = "handleMessage"
    /\ handled.message = stringify(<<<<"size", Num(5)>>>>)
    /\ isOpen(handled.conn)
    /\ connectedClients[handled.conn] # 0
    /\ OtherSessions(handled.conn) # {}
    /\ Len(sent) = 1
    /\ sent[1].frame.message = <<"Unknown message type: ", "">>
    /\ mainQueue # <<>>
    /\ Head(mainQueue).kind = "handleMessage"
    /\ Head(mainQueue).conn = handled.conn

(***************************************************************************)
(* Properties of the connector's reconnect policy                          *)
(***************************************************************************)
\* C14: an onClose schedules a reconnect exactly if its code is not 1000 and
\* reconnectAttempts was below maxReconnectAttempts; in either case the
\* connector is not connected afterwards; the onClose of a close caused by
\* disconnect() schedules nothing.
C14_CloseSchedulesIffAbnormal ==
    lastCall.kind = "onClose" =>
        /\ lastCall.scheduled <=> (lastCall.code # 1000 /\ lastCall.attempts < 5)
        /\ ~isConnected
        /\ lastCall.local => ~lastCall.scheduled

\* C15: once disconnect() has been called (and forceReconnect() has not been
\* called since), no delayed reconnect task executes connect().
C15_NoConnectAfterDisconnect ==
    [][disconnected => ~(ConnectIssued /\ reconnectTasks' < reconnectTasks)]_vars

C18_SendWhileDisconnectedIsNoOp ==
    [][(lastCall'.kind = "sendMessage" /\ ~isConnected)
       => /\ ~lastCall'.delivered
          /\ ~lastCall'.thrown
          /\ UNCHANGED <<isConnected, reconnectAttempts, webSocketClient, clientState,
                         closeCode, pendingConnects, inSchedule, reconnectTasks>>]_vars

\* sendMessage has been called while a delayed reconnect task is pending and
\* while an earlier client is still open
C18_Witness ==
    /\ lastCall.kind = "sendMessage"
    /\ ~lastCall.connected
    /\ ~lastCall.delivered
    /\ reconnectTasks > 0
    /\ \E c \in Clients : clientState[c] = "open"

(***************************************************************************)
(* Progress of the connector                                               *)
(***************************************************************************)
\* forceReconnect() would need more client objects or pending lambdas than
\* the limits allow
NoRoom ==
    \/ pendingConnects >= FewPending
    \/ \A after \in AfterLocalClose :
           \A c \in FreeSlots(Collect(after.state, 0)) : c > FewClients

IdsHeld(c) == ({opening[c]} \cup {connectedClients[c]}) \ {0}

\* C19: the ids the listener allocates are Client-1, Client-2, ... in allocation
\* order: strictly increasing and so unique and never handed out again after a
\* session closed, and two connections never hold the same id, however the
\* statements of concurrent onOpen calls interleave.
C19_SessionIdsUniqueIncreasing ==
    /\ \A i \in 1..Len(allocated) : allocated[i] = i
    /\ \A i, j \in 1..Len(allocated) : i < j => allocated[i] < allocated[j]
    /\ \A c \in Conns : \A n \in IdsHeld(c) : \E i \in 1..Len(allocated) : allocated[i] = n
    /\ \A c, d \in Conns : c # d => IdsHeld(c) \cap IdsHeld(d) = {}

\* two onOpen calls are between their statements at once, after a session closed
C19_Witness ==
    /\ \E c, d \in Conns : c # d /\ opening[c] # 0 /\ opening[d] # 0
    /\ \E c \in Conns : sockState[c] = "gone"
    /\ Len(allocated) = NumConns

\* C20: whenever no onOpen is between its statements, the registry holds as many
\* entries as there are connections whose onOpen has run and that have not
\* yet had their onClose; the count is never negative; and no
\* exception leaves onOpen or onClose.
C20_CountIsOpenConnections ==
    /\ (\A c \in Conns : opening[c] = 0) =>
           Cardinality({c \in Conns : connectedClients[c] # 0})
               = Cardinality({c \in Conns : sockState[c] \in {"open", "closed"}})
    /\ Cardinality({c \in Conns : connectedClients[c] # 0}) >= 0
    /\ handled.kind \in {"onOpen", "onClose"} => ~handled.escaped

\* ---------------------------------------------------------------------------
\* Sessions joining and leaving.

\* C21: closing a session is idempotent: the departure of a session id is
\* announced at most once; the client_disconnected frames of an onClose carry the
\* id it removed and go, one each, only to sessions that are still registered and
\* open, never to the closed connection; and an onClose that finds the connection
\* unregistered sends nothing and raises nothing.
C21_CloseIsIdempotent ==
    /\ \A n \in DOMAIN departures : departures[n] <= 1
    /\ handled.kind = "onClose" =>
           /\ ~handled.escaped
           /\ handled.clientId = 0 => sent = <<>>
           /\ \A i \in 1..Len(sent) :
                  /\ sent[i].frame = [type |-> "client_disconnected",
                                      clientId |-> handled.clientId]
                  /\ sent[i].to # handled.conn
                  /\ connectedClients[sent[i].to] # 0
                  /\ sockState[sent[i].to] = "open"
                  /\ \A j \in 1..Len(sent) : sent[j].to = sent[i].to => j = i

\* every session that was opened has been announced as gone, and a further close
\* event has found its connection unregistered
C21_Witness ==
    /\ Len(allocated) >= 2
    /\ \A i \in 1..Len(allocated) : departures[allocated[i]] = 1
    /\ \A c \in Conns : opening[c] = 0 /\ connectedClients[c] = 0
    /\ handled.kind = "onClose"
    /\ handled.clientId = 0

C36_WelcomeIsFirstFrame ==
    [][\A i \in 1..Len(sent') :
          sent'[i].frame.type # "welcome" => sockState[sent'[i].to] = "open"]_vars

\* ---------------------------------------------------------------------------
\* shutdown()

\* shutdown() has returned
ShutdownReturned == shutdownPc \in {"stopped", "failed"}

\* shutdown() has run its close loop
ClosesIssued == shutdownPc \in {"closed", "stopped"}

\* C23: shutdown() acts in a fixed order: the close frames it sends carry code
\* 1001, which is not the normal-closure code; when it issues its closes every
\* session that was open when it was called has been sent server_shutdown; the
\* server socket stops accepting only after the closes were issued; and when
\* shutdown() has returned all of this has happened: no connection is open and
\* the server does not accept.
C23_ShutdownInOrder ==
    /\ GoingAway # NormalClosure
    /\ handled.kind = "shutdown" =>
           \A i \in 1..Len(sent) :
               sent[i].frame.type = "CLOSE" => sent[i].frame.code = GoingAway
    /\ ClosesIssued => targets \subseteq noticed
    /\ ~accepting => ClosesIssued
    /\ ShutdownReturned =>
           /\ ~accepting
           /\ \A c \in Conns : ~isOpen(c)

\* ---------------------------------------------------------------------------
\* Order of handling.

\* C24: the update thread handles the frames of a session in the order in which
\* they arrived on its socket: each handleMessage step takes the earliest frame
\* of its session that is still unanswered, and the frames that step sends are
\* the replies to that frame, so replies follow the same order; the unanswered
\* frames of the other sessions stay as they are.
C24_HandledInArrivalOrder ==
    [][handled'.kind = "handleMessage" =>
          LET c == handled'.conn IN
          /\ unanswered[c] # <<>>
          /\ handled'.message = Head(unanswered[c])
          /\ sent' = handleMessage(c, Head(unanswered[c]), handled'.clientId).sends
          /\ unanswered'[c] = Tail(unanswered[c])
          /\ \A d \in Conns \ {c} : unanswered'[d] = unanswered[d]]_vars

\* a frame of a session has been handled while a later, different frame of the
\* same session waits
C24_Witness ==
    /\ handled.kind = "handleMessage"
    /\ Len(unanswered[handled.conn]) = 1
    /\ unanswered[handled.conn][1] # handled.message
    /\ Len(sent) > 0

\* the broadcast request that carries a message
BroadcastWithMessage == <<TypeMember("broadcast"), <<"message", Str("hi")>>>>

\* C25: a broadcast request with a message from an open session S makes every
\* other open session receive one broadcast_message frame with the message, S's
\* session id as from, and the timestamp; S itself is left out of the fan-out
\* and receives one frame that is an acknowledgement instead.
C25_BroadcastRelayedToOthers ==
    (handled.kind = "handleMessage" /\ handled.message = stringify(BroadcastWithMessage)
        /\ isOpen(handled.conn)) =>
        LET S == handled.conn
            relay == [type |-> "broadcast_message", message |-> <<"hi">>,
                      from |-> handled.clientId, timestamp |-> Now]
        IN  /\ \A c \in OtherSessions(S) : SentTo(c) = <<[to |-> c, frame |-> relay]>>
            /\ \A i \in 1..Len(sent) : sent[i].to \in {S} \cup OtherSessions(S)
            /\ Len(SentTo(S)) = 1
            /\ SentTo(S)[1].frame.type # "broadcast_message"

\* ---------------------------------------------------------------------------
\* Inbound frames in the two roles.

\* the step is the update thread running the connector's handler on a message
HandlesHubMessage ==
    /\ mainQueue # <<>>
    /\ Head(mainQueue).kind = "command"
    /\ mainQueue' = Tail(mainQueue)

\* C26: on the listener a plain-text frame from an open session is answered with
\* one echo frame (originalMessage, from) to its sender and with nothing else,
\* and no step of the listener calls executeCommand or dispatches a host
\* command, whatever frame it received; on the connector a plain-text frame is
\* handed to executeCommand.
C26_PlainTextEchoedOrExecuted ==
    [][
        /\ role = "listener" =>
               /\ lastExec' = NoExec
               /\ \A mu \in mutations' : mu.what # "dispatchCommand"
        /\ (handled'.kind = "handleMessage" /\ handled'.message \in PlainTextFrames
                /\ isOpen(handled'.conn)) =>
               /\ sent' = <<[to |-> handled'.conn,
                             frame |-> [type |-> "echo",
                                        originalMessage |-> handled'.message,
                                        from |-> handled'.clientId]]>>
               /\ scheduled' = <<>>
        /\ (role = "connector" /\ HandlesHubMessage
                /\ Head(mainQueue).message \in PlainCommands) =>
               /\ lastExec'.called
               /\ lastExec'.command = trim(Head(mainQueue).message)
    ]_vars

\* the listener has echoed a plain-text frame
C26_Witness ==
    /\ role = "listener"
    /\ handled.kind = "handleMessage"
    /\ handled.message \in PlainTextFrames
    /\ Len(sent) = 1
    /\ sent[1].frame.type = "echo"
    /\ lastExec = NoExec

\* C27: a structured frame (a JSON object with a type, or malformed JSON in
\* braces) that arrives on the connector is handled by the protocol dispatcher
\* as on the listener: it is not handed to executeCommand as the text of a
\* host command, and nothing is dispatched to the host for it.
C27_ConnectorUsesDispatcher ==
    [][(role = "connector" /\ HandlesHubMessage
           /\ Head(mainQueue).message \in StructuredTexts) =>
          /\ ~lastExec'.called
          /\ lastExec'.dispatch = NoDispatch]_vars

\* message.trim(), colour codes removed, cut to max-command-length
Sanitized(message) ==
    LET stripped == removeColorCodes(trim(message))
    IN  IF Len(stripped) > maxCommandLength
        THEN SubSeq(stripped, 1, maxCommandLength) ELSE stripped

HasForbiddenSequence(text) ==
    \/ contains(text, <<"&","&">>)
    \/ contains(text, <<"|","|">>)
    \/ contains(text, <<";">>)

\* C28: a frame on the connector whose text, after trimming, colour-code
\* stripping and truncation to max-command-length, is empty or contains "&&",
\* "||" or ";" is rejected by processMessage with null; the handler does not
\* call executeCommand for it, raises nothing, dispatches nothing to the host,
\* and leaves the connection as it was. Whenever executeCommand is called, the
\* text it gets is not empty and has none of these sequences.
C28_RejectedTextNotExecuted ==
    [][
        /\ (role = "connector" /\ HandlesHubMessage
                /\ LET text == Sanitized(Head(mainQueue).message)
                   IN  text = <<>> \/ HasForbiddenSequence(text)) =>
               /\ processMessage(Head(mainQueue).message) = NullMessage
               /\ lastExec' = NoExec
               /\ mutations' = mutations
               /\ UNCHANGED connectorVars
        /\ (role = "connector" /\ HandlesHubMessage /\ lastExec'.called) =>
               /\ lastExec'.command # <<>>
               /\ ~HasForbiddenSequence(lastExec'.command)
    ]_vars

\* the hub's frame has been taken from the update thread's queue and handled
\* without a call of executeCommand, and the connection is still open
C28_Witness ==
    /\ role = "connector"
    /\ framesReceived = 1
    /\ mainQueue = <<>>
    /\ lastExec = NoExec
    /\ mutations = {}
    /\ isConnected

\* ---------------------------------------------------------------------------
\* The blocks one build writes.

IsEmpty(r) == r.lo > r.hi

\* the fill writes no block
WritesNothing(f) == IsEmpty(f.xs) \/ IsEmpty(f.ys) \/ IsEmpty(f.zs)

\* lo <= v <= lo + size - 1, the bounds taken as integers
InsideFootprint(v, lo, size) ==
    /\ size > 0
    /\ lo <= v
    /\ (lo > MaxInt32 - (size - 1) \/ v <= lo + (size - 1))

\* v is lo or lo + size - 1, the bounds taken as integers
OnEdge(v, lo, size) ==
    /\ size > 0
    /\ \/ v = lo
       \/ (lo <= MaxInt32 - (size - 1) /\ v = lo + (size - 1))

\* every value of the interval r lies in the footprint
RangeInsideFootprint(r, lo, size) ==
    IsEmpty(r) \/ (InsideFootprint(r.lo, lo, size) /\ InsideFootprint(r.hi, lo, size))

\* the interval r is the whole side lo..(lo + size - 1) of the footprint
IsWholeSide(r, lo, size) ==
    IF size <= 0 THEN IsEmpty(r)
    ELSE /\ lo <= MaxInt32 - (size - 1)
         /\ r = [lo |-> lo, hi |-> lo + (size - 1)]

\* what C29 says of the writes of one build task
ConfinedToFootprint(task) ==
    LET w == BuildRun(task)
        written == {i \in DOMAIN w.fills : ~WritesNothing(w.fills[i])}
        atLevel(y) == {i \in written : w.fills[i].ys.lo <= y /\ y <= w.fills[i].ys.hi}
        levelIsFull(y) ==
            \A i \in DOMAIN w.fills :
                (w.fills[i].ys.lo <= y /\ y <= w.fills[i].ys.hi) =>
                    /\ w.fills[i].ys = OneCoord(y)
                    /\ IsWholeSide(w.fills[i].xs, task.startX, task.size)
                    /\ IsWholeSide(w.fills[i].zs, task.startZ, task.size)
    IN  \* every block written lies in the box
        /\ \A i \in written :
              /\ RangeInsideFootprint(w.fills[i].xs, task.startX, task.size)
              /\ RangeInsideFootprint(w.fills[i].zs, task.startZ, task.size)
              /\ floorY <= w.fills[i].ys.lo
              /\ w.fills[i].ys.hi <= floorY + 4
        /\ (w.lights.xs # {} /\ w.lights.zs # {}) =>
              /\ w.lights.y \in floorY..(floorY + 4)
              /\ \A x \in w.lights.xs : InsideFootprint(x, task.startX, task.size)
              /\ \A z \in w.lights.zs : InsideFootprint(z, task.startZ, task.size)
        /\ w.lights.ended
        \* the whole floor at y0 and the whole ceiling at y0 + 4
        /\ task.size > 0 => atLevel(floorY) # {} /\ atLevel(floorY + 4) # {}
        /\ levelIsFull(floorY)
        /\ levelIsFull(floorY + 4)
        /\ \A i \in atLevel(floorY) : w.fills[i].material = "POLISHED_BLACKSTONE"
        /\ \A i \in atLevel(floorY + 4) : w.fills[i].material = "GLASS"
        \* wall blocks only on the perimeter, at y0 + 1 .. y0 + 3
        /\ \A i \in written \ (atLevel(floorY) \cup atLevel(floorY + 4)) :
              /\ w.fills[i].ys = [lo |-> floorY + 1, hi |-> floorY + 3]
              /\ w.fills[i].material = "GLASS"
              /\ \/ /\ w.fills[i].xs.lo = w.fills[i].xs.hi
                    /\ OnEdge(w.fills[i].xs.lo, task.startX, task.size)
                 \/ /\ w.fills[i].zs.lo = w.fills[i].zs.hi
                    /\ OnEdge(w.fills[i].zs.lo, task.startZ, task.size)
        \* and all four sides of the perimeter carry a wall
        /\ task.size > 0 =>
              \A side \in {"north", "south", "west", "east"} :
                  \E i \in written :
                      /\ w.fills[i].ys = [lo |-> floorY + 1, hi |-> floorY + 3]
                      /\ CASE side = "north" ->
                                  /\ w.fills[i].zs = OneCoord(task.startZ)
                                  /\ IsWholeSide(w.fills[i].xs, task.startX, task.size)
                           [] side = "south" ->
                                  /\ w.fills[i].zs = OneCoord(task.startZ + (task.size - 1))
                                  /\ IsWholeSide(w.fills[i].xs, task.startX, task.size)
                           [] side = "west" ->
                                  /\ w.fills[i].xs = OneCoord(task.startX)
                                  /\ IsWholeSide(w.fills[i].zs, task.startZ, task.size)
                           [] side = "east" ->
                                  /\ w.fills[i].xs = OneCoord(task.startX + (task.size - 1))
                                  /\ IsWholeSide(w.fills[i].zs, task.startZ, task.size)

\* C29 as stated: the writes of every build of a size the protocol accepts
\* (3..100) are confined to the footprint box
\* [startX, startX+size-1] x [y0, y0+4] x [startZ, startZ+size-1], with the
\* whole floor at y0, the whole ceiling at y0+4 and wall blocks only on the
\* perimeter at y0+1..y0+3, for every start corner.
C29_WritesConfinedToFootprint ==
    \A task \in built :
        task.size \in MinSize..MaxSize => ConfinedToFootprint(task)

\* no coordinate the build computes on this axis passes the ends of the range
\* of int: the footprint, and one lighting step beyond its last inner cell
BuildFits(lo, size) ==
    /\ size > 0
    /\ lo <= (MaxInt32 - size) - Max(4, JavaDiv(size, 6))

\* C29, amended: the writes of a build of positive size whose footprint, with
\* one lighting step added, ends below the largest int on both axes are
\* confined to the footprint box, with the whole floor at y0, the whole
\* ceiling at y0+4 and wall blocks only on the perimeter at y0+1..y0+3.
C29_WritesConfinedWhenBuildFits ==
    \A task \in built :
        (BuildFits(task.startX, task.size) /\ BuildFits(task.startZ, task.size))
            => ConfinedToFootprint(task)

\* a 7 x 7 build at (-2, 1) has been executed: its floor is the first fill
C29_Witness ==
    \E task \in built :
        /\ task.startX = -2 /\ task.startZ = 1 /\ task.size = 7
        /\ BuildRun(task).fills[1] =
               Fill([lo |-> -2, hi |-> 4], OneCoord(100), [lo |-> 1, hi |-> 7],
                    "POLISHED_BLACKSTONE")
        /\ BuildRun(task).fills[5] =
               Fill(OneCoord(4), [lo |-> 101, hi |-> 103], [lo |-> 1, hi |-> 7], "GLASS")
        /\ BuildRun(task).lights.xs = {2}
        /\ BuildRun(task).lights.zs = {5}

\* the positions lo + i * s with i >= 1 that are at most lo + size - 2, for a
\* footprint that fits with one step to spare
GridLine(lo, size) ==
    LET s == Max(4, JavaDiv(size, 6)) IN
    {lo + i * s : i \in {k \in 1..size : k * s <= size - 2}}

\* what C30 says of the lanterns of one build task
LightsOnGrid(task) ==
    LET lights == BuildRun(task).lights
        s == Max(4, JavaDiv(task.size, 6))
    IN  /\ lights.ended
        /\ lights.material = "SEA_LANTERN"
        /\ lights.y = floorY + 3
        \* on the grid, the first line one spacing in from the edge
        /\ \A x \in lights.xs :
              /\ \E i \in 1..task.size :
                    /\ task.startX <= MaxInt32 - i * s
                    /\ x = task.startX + i * s
              /\ InsideFootprint(x, task.startX, task.size)
              /\ ~OnEdge(x, task.startX, task.size)
        /\ \A z \in lights.zs :
              /\ \E j \in 1..task.size :
                    /\ task.startZ <= MaxInt32 - j * s
                    /\ z = task.startZ + j * s
              /\ InsideFootprint(z, task.startZ, task.size)
              /\ ~OnEdge(z, task.startZ, task.size)

SchedulesBuild ==
    /\ handled'.kind = "handleMessage"
    /\ mainQueue # <<>>
    /\ Head(mainQueue).kind = "handleMessage"
    /\ scheduled' # <<>>

\* C31: a build is scheduled, not executed inline. The handler step of an
\* accepted create_trading_floor request writes no block and puts one build
\* task at the end of the update thread's queue; the result it reports is
\* computed in that step (the reply to a requester that is still open carries
\* the centre of the scheduled build), and every frame the request causes is
\* sent in that step, before the task runs. Blocks are written only by a later
\* step of the update thread that takes a build task from the head of the
\* queue and sends no frame; its writes are ordered floor, walls, ceiling,
\* lighting.
C31_BuildScheduledNotInline ==
    [][
        /\ SchedulesBuild =>
              /\ built' = built
              /\ mutations' = mutations
              /\ Len(scheduled') = 1
              /\ scheduled'[1].kind = "build"
              /\ mainQueue' = Tail(mainQueue) \o scheduled'
              /\ isOpen(handled'.conn) =>
                    LET r == TradingFloorResult(scheduled'[1].startX, scheduled'[1].startZ,
                                                scheduled'[1].size)
                    IN  /\ sent' # <<>>
                        /\ sent'[1].to = handled'.conn
                        /\ sent'[1].frame.type = "trading_floor_created"
                        /\ sent'[1].frame.centerX = r.centerX
                        /\ sent'[1].frame.centerY = r.centerY
                        /\ sent'[1].frame.centerZ = r.centerZ
                        /\ sent'[1].frame.size = r.size
                        /\ \A i \in 2..Len(sent') :
                              sent'[i].frame.type = "trading_floor_created_broadcast"
        /\ (built' # built \/ mutations' # mutations) =>
              /\ mainQueue # <<>>
              /\ Head(mainQueue).kind = "build"
              /\ mainQueue' = Tail(mainQueue)
              /\ built' = built \cup {Head(mainQueue)}
              /\ mutations' = mutations \cup {[what |-> "setType", thread |-> "main"]}
              /\ sent' = <<>>
              /\ scheduled' = <<>>
              /\ LET w == BuildRun(Head(mainQueue)) IN
                 /\ Len(w.fills) = 6
                 /\ w.fills[1].ys = OneCoord(floorY)
                 /\ \A i \in 2..5 : w.fills[i].ys = [lo |-> floorY + 1, hi |-> ceilingY - 1]
                 /\ w.fills[6].ys = OneCoord(ceilingY)
                 /\ w.lights.y = floorY + 3
    ]_vars

\* the build of an answered request has been run by the update thread while
\* the requester and another session were open
C31_Witness ==
    /\ role = "listener"
    /\ handled.kind = "build"
    /\ built # {}
    /\ mainQueue = <<>>
    /\ \E c, d \in Conns : c # d /\ sockState[c] = "open" /\ sockState[d] = "open"

\* the step is the update thread running handleMessage
RunsHandler ==
    /\ mainQueue # <<>>
    /\ Head(mainQueue).kind = "handleMessage"
    /\ handled'.kind = "handleMessage"

\* C32: an exception raised while a frame is dispatched on the listener (a send
\* to a connection that has closed in the meantime included) is caught at the
\* dispatcher boundary: it never leaves the update-thread task, the running
\* flag stays as it was, and no session is closed or unregistered by the step.
C32_ErrorsCaughtAtBoundary ==
    [][RunsHandler =>
          /\ ~handled'.escaped
          /\ serverRunning' = serverRunning
          /\ sockState' = sockState
          /\ connectedClients' = connectedClients]_vars

\* C35: whenever a handler has scheduled the block writes of a
\* create_trading_floor request, it has sent trading_floor_created to the
\* requester and trading_floor_created_broadcast to every other session that is
\* open, whether or not the requesting connection is still open.
C35_ScheduledBuildIsAnnounced ==
    (handled.kind = "handleMessage" /\ scheduled # <<>>) =>
        /\ \E i \in 1..Len(sent) :
              /\ sent[i].to = handled.conn
              /\ sent[i].frame.type = "trading_floor_created"
        /\ \A c \in OtherSessions(handled.conn) :
              \E i \in 1..Len(sent) :
                  /\ sent[i].to = c
                  /\ sent[i].frame.type = "trading_floor_created_broadcast"

\* ---------------------------------------------------------------------------
\* The connector's sockets.

\* the WebSocketClient objects that are connecting or open
LiveClients == {c \in Clients : clientState[c] \in {"connecting", "open"}}

\* C33: the connector owns at most one live outbound socket: at any time at
\* most one WebSocketClient is connecting or open, and connect() is never
\* executed while a client created earlier is still connecting or open.
C33_AtMostOneLiveSocket ==
    [][
        /\ Cardinality(LiveClients') <= 1
        /\ ConnectIssued => LiveClients' = {}
    ]_vars

\* the step is a callback of client c: onOpen, onError or onClose
IsCallbackOf(c) ==
    \/ clientState[c] = "connecting" /\ clientState'[c] \in {"open", "closing"}
    \/ clientState[c] = "closing" /\ clientState'[c] \in {"closed", "none"}

\* C34: isConnected reflects the current socket only: whenever the client
\* created last is open, isConnected is true; and a callback of a client that
\* webSocketClient no longer holds changes neither isConnected nor
\* reconnectAttempts and schedules no reconnect.
C34_IsConnectedFollowsCurrentClient ==
    [][
        /\ (webSocketClient' # 0 /\ clientState'[webSocketClient'] = "open") => isConnected'
        /\ \A c \in Clients :
              (c # webSocketClient /\ IsCallbackOf(c)) =>
                  /\ isConnected' = isConnected
                  /\ reconnectAttempts' = reconnectAttempts
                  /\ inSchedule' = inSchedule
    ]_vars
(***************************************************************************)
(* The running flag of the listener                                        *)
(***************************************************************************)
\* isServerRunning(): serverRunning && getConnections() != null, and the
\* collection of connections is never null
isServerRunning == serverRunning

ShutdownCalled == shutdownPc # "idle"

\* C37: the running flag follows Stopped -> Starting -> Running -> Stopping ->
\* Stopped: isServerRunning() becomes true only in the onStart callback of a
\* starting server, and it is false in every state after shutdown() has been
\* called, also when onStart is called after shutdown().
C37_RunningFlagFollowsLifecycle ==
    [][
        /\ (~isServerRunning /\ isServerRunning') =>
               (handled'.kind = "onStart" /\ serverThread = "starting")
        /\ ShutdownCalled' => ~isServerRunning'
    ]_vars
(***************************************************************************)
(* Letter case in the policy lists                                         *)
(***************************************************************************)
\* the list holds an entry that equals the name up to letter case
MatchesEntry(name, list) == \E e \in list : toLowerCase(e) = toLowerCase(name)

\* C38: matching against the policy lists ignores letter case on both sides: a
\* command whose name equals a blocked-commands entry up to letter case is
\* rejected, and with a non-empty allowed-commands list a command whose name
\* equals an allowed-commands entry up to letter case passes the allow-list
\* test, so it is dispatched unless it is blocked or dangerous.
C38_ListMatchingIgnoresCase ==
    lastExec.called =>
        LET name == NameOfCommand(lastExec.command) IN
        /\ MatchesEntry(name, blockedCommands)
               => (lastExec.ret = FALSE /\ lastExec.dispatch = NoDispatch)
        /\ ( /\ allowedCommands # {}
             /\ MatchesEntry(name, allowedCommands)
             /\ ~MatchesEntry(name, blockedCommands)
             /\ name \notin dangerousCommands )
               => lastExec.dispatch # NoDispatch
(***************************************************************************)
(* Properties of the trade queue of the mineflayer client                  *)
(***************************************************************************)
\* trade ids are given in the order of arrival
InArrivalOrder(s) == \A i, j \in DOMAIN s : i < j => s[i] < s[j]

\* C39: the trade queue is processed in arrival order: a trade queued by
\* handleTradeCommand before another one is handed to trade_timestep before
\* it, however many trades were queued between two timer ticks.
C39_ProcessedInArrivalOrder == InArrivalOrder(handedOver)

NoDuplicates(s) == \A i, j \in DOMAIN s : s[i] = s[j] => i = j

HandsOver == handedOver' # handedOver

\* C40: processTradeQueue has at most one batch in flight and keeps its guard:
\* isProcessingTrades is true exactly while one invocation waits between its
\* guard test and its finally block, every invocation that ends leaves it
\* false, a trade is handed to trade_timestep only while no batch is in flight
\* and a simulation exists, no trade is handed over twice, stopping the
\* simulation empties the queue, and a trade that was in the queue at a stop
\* is never handed over.
C40_OneBatchInFlight ==
    [][
        /\ isProcessingTrades' <=> (inFlight' # 0)
        /\ NoDuplicates(handedOver')
        /\ cleared' \cap Range(handedOver') = {}
        /\ HandsOver =>
               /\ tradeStep'.kind = "processTradeQueue"
               /\ ~isProcessingTrades
               /\ currentSimulation # 0
               /\ handedOver' = Append(handedOver, tradeStep'.handed)
               /\ tradeStep'.handed \in Range(tradeQueue) \ Range(tradeQueue')
        /\ (tradeStep'.kind = "processTradeQueue" /\ tradeStep'.thrown) => ~isProcessingTrades'
        /\ tradeStep'.kind = "settled" => ~isProcessingTrades'
        /\ (currentSimulation # 0 /\ currentSimulation' = 0) =>
               (tradeQueue' = <<>> /\ Range(tradeQueue) \subseteq cleared')
    ]_vars

\* a stop has cleared a queued trade, a trade queued later was handed to
\* trade_timestep, which threw, and the guard is false again
C40_Witness ==
    /\ cleared # {}
    /\ handedOver # <<>>
    /\ tradeStep.kind = "processTradeQueue"
    /\ tradeStep.thrown
    /\ ~isProcessingTrades
    /\ currentSimulation # 0
=============================================================================
